---------------------------- MODULE Spec2Model ----------------------------
(***************************************************************************)
(* Model of the two MCP tool servers of my-first-mcp-agent and of the chat  *)
(* application that drives them:                                           *)
(*   src/server.py         weather tools (dispatcher + HTTP gateway)       *)
(*   src/travel_server.py  trip-planning tools (pure planning engine)      *)
(*   src/app.py            Chainlit session handlers around the agent      *)
(*                                                                         *)
(* Texts that the code inspects character by character (condition texts,   *)
(* duration tags, string-encoded integers) are sequences of one-character   *)
(* strings.  Texts the code only passes along are TLA+ strings.  A payload  *)
(* produced by an f-string is a record holding the interpolated fields.     *)
(***************************************************************************)
EXTENDS Integers, Sequences, FiniteSets, TLC

VARIABLES
    API_KEY,      \* server.py: module global read from WEATHERAPI_KEY
    w_request,    \* weather server: the tools/call request (name, arguments)
    w_response,   \* weather server: what the provider answers to a GET
    w_pc,         \* weather server: "idle", "pending" or "done"
    w_http,       \* weather server: HTTP GETs issued while handling the request
    w_result,     \* weather server: the result of the call
    t_request,    \* travel server: the tools/call request (name, arguments)
    t_pc,         \* travel server: "idle", "pending" or "done"
    t_locals,     \* travel server: locals of the suggest_activities branch
    t_result,     \* travel server: the result of the call
    user_session, \* app: cl.user_session, the keys set so far and their values
    mcp_client,   \* app: the MultiServerMCPClient object of the session
    now,          \* app: the clock read by datetime.now()
    a_pc,         \* app: "idle", "new" (connected), "active" (started), "ended"
    a_call,       \* app: the handler that ran last, its input and its outcome
    a_shown,      \* app: what that handler showed to the user
    a_logged      \* app: what that handler wrote to the logger

wvars == <<API_KEY, w_request, w_response, w_pc, w_http, w_result>>
tvars == <<t_request, t_pc, t_locals, t_result>>
avars == <<user_session, mcp_client, now, a_pc, a_call, a_shown, a_logged>>
vars == <<API_KEY, w_request, w_response, w_pc, w_http, w_result,
          t_request, t_pc, t_locals, t_result,
          user_session, mcp_client, now, a_pc, a_call, a_shown, a_logged>>

(***************************************************************************)
(* Bounds of the model.                                                    *)
(***************************************************************************)
MaxWords == 2          \* phrases in a weather condition text
MaxPrefs == 1          \* entries in a preferences list
MaxActivities == 4     \* entries in create_itinerary's activities
MaxRestaurants == 4    \* entries in create_itinerary's restaurants
MaxLocations == 2      \* entries in a location search answer

(***************************************************************************)
(* Python helpers: str.lower, the substring test "x in s", slices, dicts.  *)
(***************************************************************************)
UpperCase == <<"A","B","C","D","E","F","G","H","I","J","K","L","M",
               "N","O","P","Q","R","S","T","U","V","W","X","Y","Z">>
LowerCase == <<"a","b","c","d","e","f","g","h","i","j","k","l","m",
               "n","o","p","q","r","s","t","u","v","w","x","y","z">>

\* the lower-case letter of each upper-case letter
LowerOf ==
    [u \in {UpperCase[i] : i \in 1..Len(UpperCase)} |->
        LowerCase[CHOOSE i \in 1..Len(UpperCase) : UpperCase[i] = u]]

\* one character of str.lower()
LowerChar(c) == IF c \in DOMAIN LowerOf THEN LowerOf[c] ELSE c

\* str.lower()
Lower(s) == [i \in 1..Len(s) |-> LowerChar(s[i])]

\* needle in hay (substring test on character sequences)
Contains(needle, hay) ==
    \E i \in 1..(Len(hay) - Len(needle) + 1) :
        SubSeq(hay, i, i + Len(needle) - 1) = needle

\* lst[:n]
Take(lst, n) == SubSeq(lst, 1, IF Len(lst) < n THEN Len(lst) ELSE n)

\* x in lst
InList(x, lst) == \E i \in 1..Len(lst) : lst[i] = x

\* the empty argument bag {}
EmptyBag == <<>>

\* d.get(k, default)
Get(d, k, default) == IF k \in DOMAIN d THEN d[k] ELSE default

\* an argument that may be absent: <<>> is absent, <<v>> is present with value v
Arg(k, opt) == IF Len(opt) = 0 THEN EmptyBag ELSE (k :> opt[1])

(***************************************************************************)
(* Outcome of a handler body, and what the dispatcher hands back.          *)
(***************************************************************************)
Return(text) == [outcome |-> "return", text |-> text]
Raise(exc)   == [outcome |-> "raise", exc |-> exc]

\* KeyError(k): str(e) is the repr of the key, 'k'
KeyError(k) == [type |-> "KeyError", str |-> <<"'", k, "'">>]

\* [TextContent(type="text", text=...)]
TextContent(text) == [type |-> "text", text |-> text]

\* The result that reaches the caller.  The handlers return a content list
\* through the normal return path and never set an error flag: the
\* @server.call_tool() wrapper marks a result as an error only when the
\* handler raises.
ToolResult(outcome) ==
    IF outcome.outcome = "return"
    THEN [raised |-> FALSE, is_error |-> FALSE, content |-> TextContent(outcome.text)]
    ELSE [raised |-> TRUE, is_error |-> TRUE, content |-> TextContent(outcome.exc)]

\* except Exception as e: return [TextContent(text=f"Errore: {str(e)}")]
ErrorePayload(exc) == [kind |-> "Errore", message |-> exc.str]

\* else: return [TextContent(text=f"Strumento sconosciuto: {name}")]
UnknownToolPayload(name) == [kind |-> "Strumento sconosciuto", name |-> name]

(***************************************************************************)
(* travel_server.py: static tables.                                        *)
(***************************************************************************)
ACTIVITIES_DB ==
    [indoor |-> <<
        [name |-> "Musei e Gallerie d'Arte",
         description |-> "Visita musei, gallerie, mostre",
         suitable_weather |-> <<"rain", "cold", "snow">>,
         duration |-> <<"2","-","4"," ","o","r","e">>, type |-> "cultura"],
        [name |-> "Shopping Centers",
         description |-> "Centri commerciali, boutique al coperto",
         suitable_weather |-> <<"rain", "cold", "hot">>,
         duration |-> <<"2","-","3"," ","o","r","e">>, type |-> "shopping"],
        [name |-> "Cinema o Teatro",
         description |-> "Film, spettacoli teatrali, concerti al coperto",
         suitable_weather |-> <<"rain", "cold", "hot">>,
         duration |-> <<"2","-","3"," ","o","r","e">>, type |-> "intrattenimento"],
        [name |-> "Spa e Centri Benessere",
         description |-> "Relax, massaggi, terme",
         suitable_weather |-> <<"rain", "cold">>,
         duration |-> <<"2","-","4"," ","o","r","e">>, type |-> "relax"],
        [name |-> "Ristoranti e Caffè Storici",
         description |-> "Tour gastronomico al coperto",
         suitable_weather |-> <<"rain", "cold", "hot">>,
         duration |-> <<"1","-","2"," ","o","r","e">>, type |-> "food"] >>,
     outdoor |-> <<
        [name |-> "Parchi e Giardini",
         description |-> "Passeggiate, picnic, relax all'aperto",
         suitable_weather |-> <<"sunny", "mild", "partly_cloudy">>,
         duration |-> <<"1","-","3"," ","o","r","e">>, type |-> "natura"],
        [name |-> "Tour Architettonici a Piedi",
         description |-> "Scopri monumenti e architettura",
         suitable_weather |-> <<"sunny", "mild", "partly_cloudy">>,
         duration |-> <<"2","-","4"," ","o","r","e">>, type |-> "cultura"],
        [name |-> "Mercati all'Aperto",
         description |-> "Mercati locali, street food",
         suitable_weather |-> <<"sunny", "mild">>,
         duration |-> <<"1","-","2"," ","o","r","e">>, type |-> "shopping"],
        [name |-> "Attività Sportive",
         description |-> "Ciclismo, jogging, sport",
         suitable_weather |-> <<"sunny", "mild">>,
         duration |-> <<"1","-","3"," ","o","r","e">>, type |-> "sport"],
        [name |-> "Aperitivi all'Aperto",
         description |-> "Bar con terrazze, rooftop",
         suitable_weather |-> <<"sunny", "mild">>,
         duration |-> <<"1","-","2"," ","o","r","e">>, type |-> "food"] >>,
     mixed |-> <<
        [name |-> "Tour Guidati della Città",
         description |-> "Bus turistici, tour guidati misti",
         suitable_weather |-> <<"any">>,
         duration |-> <<"3","-","4"," ","o","r","e">>, type |-> "cultura"],
        [name |-> "Cooking Class",
         description |-> "Corsi di cucina locale",
         suitable_weather |-> <<"any">>,
         duration |-> <<"2","-","3"," ","o","r","e">>, type |-> "food"] >>]

RESTAURANTS_DB ==
    [Milano |-> <<
        [name |-> "Trattoria Milanese", type |-> "tradizionale", price |-> "€€",
         specialty |-> "Cucina milanese"],
        [name |-> "Luini", type |-> "street_food", price |-> "€",
         specialty |-> "Panzerotti"],
        [name |-> "Eataly Smeraldo", type |-> "food_hall", price |-> "€€",
         specialty |-> "Prodotti italiani"] >>,
     Roma |-> <<
        [name |-> "Roscioli", type |-> "bistrot", price |-> "€€€",
         specialty |-> "Cucina romana"],
        [name |-> "Trapizzino", type |-> "street_food", price |-> "€",
         specialty |-> "Trapizzini"] >>,
     default |-> <<
        [name |-> "Ristorante Locale", type |-> "tradizionale", price |-> "€€",
         specialty |-> "Cucina locale"] >>]

(***************************************************************************)
(* travel_server.py: classify_weather.                                     *)
(***************************************************************************)
\* classify_weather with the temperature test ahead of the textual cues
ClassifyWeather_TempFirst(weather_condition, temp) ==
    LET condition_lower == Lower(weather_condition) IN
    IF temp > 28 THEN "hot"
    ELSE IF Contains(<<"r","a","i","n">>, condition_lower)
            \/ Contains(<<"p","i","o","g","g","i","a">>, condition_lower)
    THEN "rain"
    ELSE IF Contains(<<"s","n","o","w">>, condition_lower)
            \/ Contains(<<"n","e","v","e">>, condition_lower)
    THEN "snow"
    ELSE IF Contains(<<"s","u","n","n","y">>, condition_lower)
            \/ Contains(<<"c","l","e","a","r">>, condition_lower)
            \/ Contains(<<"s","e","r","e","n","o">>, condition_lower)
    THEN "sunny"
    ELSE IF temp < 5 THEN "cold"
    ELSE IF temp < 18 THEN "mild"
    ELSE "partly_cloudy"

ClassifyWeather(weather_condition, temp) ==
    LET condition_lower == Lower(weather_condition) IN
    IF Contains(<<"r","a","i","n">>, condition_lower)
       \/ Contains(<<"p","i","o","g","g","i","a">>, condition_lower)
    THEN "rain"
    ELSE IF Contains(<<"s","n","o","w">>, condition_lower)
            \/ Contains(<<"n","e","v","e">>, condition_lower)
    THEN "snow"
    ELSE IF Contains(<<"s","u","n","n","y">>, condition_lower)
            \/ Contains(<<"c","l","e","a","r">>, condition_lower)
            \/ Contains(<<"s","e","r","e","n","o">>, condition_lower)
    THEN (IF temp > 28 THEN "hot" ELSE "sunny")
    ELSE IF temp < 5 THEN "cold"
    ELSE IF temp < 18 THEN "mild"
    ELSE "partly_cloudy"

(***************************************************************************)
(* travel_server.py: call_tool, the suggest_activities branch.             *)
(***************************************************************************)
\* not preferences or activity["type"] in preferences
PreferenceOk(activity, preferences) ==
    Len(preferences) = 0 \/ InList(activity.type, preferences)

\* weather_class in ["rain", "snow", "cold", "hot"]
PreferIndoor(weather_class) == weather_class \in {"rain", "snow", "cold", "hot"}

\* first loop: the primary category, filtered by weather and preferences
PrimarySelection(primary_category, weather_class, preferences) ==
    SelectSeq(ACTIVITIES_DB[primary_category],
              LAMBDA activity :
                  /\ \/ InList(weather_class, activity.suitable_weather)
                     \/ InList("any", activity.suitable_weather)
                  /\ PreferenceOk(activity, preferences))

\* the mixed pool appended whatever the preferences
MixedSelection_All(preferences) == ACTIVITIES_DB["mixed"]

\* second loop: the mixed pool, filtered by preferences
MixedSelection(preferences) ==
    SelectSeq(ACTIVITIES_DB["mixed"],
              LAMBDA activity : PreferenceOk(activity, preferences))

\* third loop: the secondary category, filtered by preferences only
SecondarySelection(secondary_category, preferences) ==
    SelectSeq(ACTIVITIES_DB[secondary_category],
              LAMBDA activity : PreferenceOk(activity, preferences))

\* a variant that extends with the secondary category whatever the count
Backfill_Always(suitable_activities, secondary_category, preferences) ==
    suitable_activities \o SecondarySelection(secondary_category, preferences)

\* if len(suitable_activities) < 3: extend with the secondary category
Backfill(suitable_activities, secondary_category, preferences) ==
    IF Len(suitable_activities) < 3
    THEN suitable_activities \o SecondarySelection(secondary_category, preferences)
    ELSE suitable_activities

\* if duration == "short": keep the activities whose duration holds "1-2"
DurationFilter(suitable_activities, duration) ==
    IF duration = "short"
    THEN SelectSeq(suitable_activities,
                   LAMBDA a : Contains(<<"1","-","2">>, a.duration))
    ELSE suitable_activities

\* the listing without the [:5] slice
ListedActivities_NoLimit(suitable_activities) == suitable_activities

\* suitable_activities[:5]
ListedActivities(suitable_activities) == Take(suitable_activities, 5)

\* the locals of the branch, in the order the code computes them
SuggestActivitiesLocals(arguments) ==
    LET weather_class == ClassifyWeather(arguments["weather_condition"],
                                         arguments["temperature"])
        preferences == Get(arguments, "preferences", <<>>)
        duration == Get(arguments, "duration", "medium")
        prefer_indoor == PreferIndoor(weather_class)
        primary_category == IF prefer_indoor THEN "indoor" ELSE "outdoor"
        secondary_category == IF prefer_indoor THEN "outdoor" ELSE "indoor"
        after_primary == PrimarySelection(primary_category, weather_class, preferences)
        after_mixed == after_primary \o MixedSelection(preferences)
        after_backfill == Backfill(after_mixed, secondary_category, preferences)
    IN  [weather_class |-> weather_class,
         prefer_indoor |-> prefer_indoor,
         primary_category |-> primary_category,
         secondary_category |-> secondary_category,
         after_primary |-> after_primary,
         after_mixed |-> after_mixed,
         after_backfill |-> after_backfill,
         suitable_activities |-> DurationFilter(after_backfill, duration)]

NoLocals == [weather_class |-> "none"]

SuggestActivitiesBody(arguments) ==
    IF "location" \notin DOMAIN arguments THEN Raise(KeyError("location"))
    ELSE IF "weather_condition" \notin DOMAIN arguments
    THEN Raise(KeyError("weather_condition"))
    ELSE IF "temperature" \notin DOMAIN arguments THEN Raise(KeyError("temperature"))
    ELSE LET locals == SuggestActivitiesLocals(arguments) IN
         Return([kind |-> "Attività consigliate",
                 location |-> arguments["location"],
                 weather_condition |-> arguments["weather_condition"],
                 temperature |-> arguments["temperature"],
                 prefer_indoor |-> locals.prefer_indoor,
                 items |-> ListedActivities(locals.suitable_activities)])

(***************************************************************************)
(* travel_server.py: call_tool, the other branches.                        *)
(***************************************************************************)
\* the lookup without the default list: RESTAURANTS_DB.get(location, [])
RestaurantsFor_NoFallback(location) ==
    IF location \in DOMAIN RESTAURANTS_DB THEN RESTAURANTS_DB[location] ELSE <<>>

\* RESTAURANTS_DB.get(location, RESTAURANTS_DB["default"])
RestaurantsFor(location) ==
    IF location \in DOMAIN RESTAURANTS_DB
    THEN RESTAURANTS_DB[location]
    ELSE RESTAURANTS_DB["default"]

\* the budget filter as an exact match only
BudgetFilter_Exact(restaurants, budget) ==
    SelectSeq(restaurants, LAMBDA r : r.price = budget)

\* [r for r in restaurants if r["price"] == budget or budget == "€€"]
BudgetFilter(restaurants, budget) ==
    SelectSeq(restaurants, LAMBDA r : r.price = budget \/ budget = "€€")

\* filtered[:3]
ListedRestaurants(filtered) == Take(filtered, 3)

SuggestRestaurantsBody(arguments) ==
    IF "location" \notin DOMAIN arguments THEN Raise(KeyError("location"))
    ELSE LET location == arguments["location"]
             meal_type == Get(arguments, "meal_type", "lunch")
             budget == Get(arguments, "budget", "€€")
             restaurants == RestaurantsFor(location)
             filtered == BudgetFilter(restaurants, budget)
         IN  Return([kind |-> "Ristoranti consigliati",
                     location |-> location,
                     meal_type |-> meal_type,
                     budget |-> budget,
                     items |-> ListedRestaurants(filtered)])

\* times = ["09:00", "11:00", "13:00", "15:00", "17:00", "19:00"]
times == <<"09:00", "11:00", "13:00", "15:00", "17:00", "19:00">>

\* a variant of the loop that pairs every activity with the i-th restaurant
\* slot only while a later activity follows
Timeline_RestaurantsBetween(activities, restaurants, i) ==
    LET acts == Take(activities, 3)
        Entry(k) == IF k % 2 = 1
                    THEN [time |-> times[k], item |-> acts[(k + 1) \div 2],
                          type |-> "activity"]
                    ELSE [time |-> times[k], item |-> restaurants[k \div 2],
                          type |-> "restaurant"]
        n == IF Len(acts) = 0 THEN 0
             ELSE IF Len(restaurants) >= Len(acts) THEN 2 * Len(acts)
             ELSE IF Len(restaurants) = 0 THEN 1
             ELSE 2 * Len(restaurants)
    IN  [k \in 1..n |-> Entry(k)]

\* a variant of the loop that fills the grid slot after slot, leaving none
\* free when a restaurant is missing
Timeline_Compact(activities, restaurants, i) ==
    LET acts == Take(activities, 3)
        Pair(k) == <<[item |-> acts[k], type |-> "activity"]>>
                   \o (IF k <= Len(restaurants)
                       THEN <<[item |-> restaurants[k], type |-> "restaurant"]>>
                       ELSE <<>>)
        entries == (IF Len(acts) >= 1 THEN Pair(1) ELSE <<>>)
                   \o (IF Len(acts) >= 2 THEN Pair(2) ELSE <<>>)
                   \o (IF Len(acts) >= 3 THEN Pair(3) ELSE <<>>)
    IN  [k \in 1..Len(entries) |->
           [time |-> times[k], item |-> entries[k].item, type |-> entries[k].type]]

\* the loop over enumerate(activities[:3]); i counts from 0 as in the code
RECURSIVE Timeline(_, _, _)
Timeline(activities, restaurants, i) ==
    IF i >= Len(Take(activities, 3)) THEN <<>>
    ELSE <<[time |-> times[i * 2 + 1], item |-> activities[i + 1], type |-> "activity"]>>
         \o (IF i < Len(restaurants)
             THEN <<[time |-> times[i * 2 + 1 + 1], item |-> restaurants[i + 1],
                     type |-> "restaurant"]>>
             ELSE <<>>)
         \o Timeline(activities, restaurants, i + 1)

CreateItineraryBody(arguments) ==
    IF "location" \notin DOMAIN arguments THEN Raise(KeyError("location"))
    ELSE IF "activities" \notin DOMAIN arguments THEN Raise(KeyError("activities"))
    ELSE LET activities == arguments["activities"]
             restaurants == Get(arguments, "restaurants", <<>>)
             start_time == Get(arguments, "start_time", "09:00")
         IN  Return([kind |-> "Itinerario",
                     location |-> arguments["location"],
                     start_time |-> start_time,
                     timeline |-> Timeline(activities, restaurants, 0),
                     n_tips |-> 3])

\* the clothing block chosen by weather_class
ClothingAdvice(weather_class) ==
    IF weather_class = "rain" THEN "Giacca impermeabile, ombrello, scarpe chiuse"
    ELSE IF weather_class = "cold" THEN "Cappotto, sciarpa, guanti, cappello"
    ELSE IF weather_class = "hot" THEN "Abbigliamento leggero, cappello, crema solare"
    ELSE "Vestiti a strati, giacca leggera"

GetTravelTipsBody(arguments) ==
    IF "location" \notin DOMAIN arguments THEN Raise(KeyError("location"))
    ELSE IF "weather_condition" \notin DOMAIN arguments
    THEN Raise(KeyError("weather_condition"))
    ELSE IF "temperature" \notin DOMAIN arguments THEN Raise(KeyError("temperature"))
    ELSE LET weather_class == ClassifyWeather(arguments["weather_condition"],
                                              arguments["temperature"])
         IN  Return([kind |-> "Consigli di Viaggio",
                     location |-> arguments["location"],
                     clothing |-> ClothingAdvice(weather_class)])

\* the locals weather_class, prefer_indoor, suitable_activities, ... that
\* the branch taken has computed when the handler returns
TravelLocals(name, arguments) ==
    IF {"location", "weather_condition", "temperature"} \subseteq DOMAIN arguments
    THEN IF name = "suggest_activities" THEN SuggestActivitiesLocals(arguments)
         ELSE IF name = "get_travel_tips"
         THEN [weather_class |-> ClassifyWeather(arguments["weather_condition"],
                                                 arguments["temperature"])]
         ELSE NoLocals
    ELSE NoLocals

\* the if/elif chain over name
TravelBody(name, arguments) ==
    IF name = "suggest_activities" THEN SuggestActivitiesBody(arguments)
    ELSE IF name = "suggest_restaurants" THEN SuggestRestaurantsBody(arguments)
    ELSE IF name = "create_itinerary" THEN CreateItineraryBody(arguments)
    ELSE IF name = "get_travel_tips" THEN GetTravelTipsBody(arguments)
    ELSE Return(UnknownToolPayload(name))

\* try: ... except Exception as e: return "Errore: ..."
CatchAll(outcome) ==
    IF outcome.outcome = "raise" THEN Return(ErrorePayload(outcome.exc)) ELSE outcome

\* travel_server.call_tool
TravelCallTool(name, arguments) == ToolResult(CatchAll(TravelBody(name, arguments)))

(***************************************************************************)
(* Inputs of the travel tools, drawn from bounded sets.                    *)
(***************************************************************************)
Opt(S) == {<<>>} \cup {<<v>> : v \in S}

\* phrases of a condition text: every keyword of classify_weather in some
\* letter case, and phrases that hold no keyword
Words == { <<"H","e","a","v","y"," ","r","a","i","n">>, <<"R","a","i","n","y">>,
           <<"P","I","O","G","G","I","A">>, <<"S","n","o","w">>, <<"n","e","v","e">>,
           <<"C","l","e","a","r">>, <<"S","u","n","n","y">>,
           <<"s","e","r","e","n","o">>, <<"O","v","e","r","c","a","s","t">> }

RECURSIVE JoinWords(_)
JoinWords(ws) ==
    IF Len(ws) = 0 THEN <<>>
    ELSE IF Len(ws) = 1 THEN ws[1]
    ELSE ws[1] \o <<" ">> \o JoinWords(Tail(ws))

ConditionTexts == { JoinWords(ws) : ws \in UNION { [1..n -> Words] : n \in 0..MaxWords } }

\* temperatures on both sides of every threshold of classify_weather; a
\* fractional temperature compares like one of its integer neighbours
Temperatures == {3, 4, 5, 8, 10, 17, 18, 20, 28, 29, 30}

PreferenceTypes == {"cultura", "sport"}
PreferenceLists == UNION { [1..n -> PreferenceTypes] : n \in 0..MaxPrefs }

\* a suggest_activities bag with its three required arguments
ActivitiesBag(l, c, t, p, d) ==
    ("location" :> l) @@ ("weather_condition" :> c) @@ ("temperature" :> t)
        @@ Arg("preferences", p) @@ Arg("duration", d)

\* suggest_activities bags that lack a required argument
ActivitiesBagsMissing ==
    { EmptyBag, ("location" :> "Milano"),
      ("location" :> "Milano") @@ ("weather_condition" :> <<"r","a","i","n">>) }

RestaurantsBags ==
    { Arg("location", l) @@ Arg("meal_type", m) @@ Arg("cuisine_type", c)
          @@ Arg("budget", b) :
        l \in Opt({"Milano", "Roma", "UnknownCity", "default"}),
        m \in Opt({"dinner"}), c \in Opt({"street_food"}),
        b \in Opt({"€", "€€", "€€€", "cheap"}) }

Names(prefix, n) == [i \in 1..n |-> prefix \o ToString(i)]

ItineraryBags ==
    { Arg("location", l) @@ Arg("activities", a) @@ Arg("restaurants", r)
          @@ Arg("start_time", s) :
        l \in Opt({"Roma"}),
        a \in Opt({ Names("activity", n) : n \in 0..MaxActivities }),
        r \in Opt({ Names("restaurant", n) : n \in 0..MaxRestaurants }),
        s \in Opt({"14:30"}) }

\* a get_travel_tips bag with its three required arguments
TipsBag(c, t) ==
    ("location" :> "Roma") @@ ("weather_condition" :> c) @@ ("temperature" :> t)

\* get_travel_tips bags that lack a required argument
TipsBagsMissing == { EmptyBag, ("location" :> "Roma") }

TravelToolNames ==
    {"suggest_activities", "suggest_restaurants", "create_itinerary", "get_travel_tips"}

\* names that no registry lists
UnknownNames == {"get_weather", "suggest_hotels", "Suggest_Activities"}

UnknownBags == { EmptyBag, ("q" :> "London"), ("location" :> "Milano") }

(***************************************************************************)
(* A tool server keeps no state between calls, so a behaviour is one call: *)
(* the request is drawn in the initial state and one action handles it.    *)
(***************************************************************************)
NoRequest == [name |-> "", arguments |-> EmptyBag]
NoResult == [raised |-> FALSE, is_error |-> FALSE, content |-> [type |-> "none"]]
NoResponse == [kind |-> "none"]

Request(name, arguments) == [name |-> name, arguments |-> arguments]

\* cl.user_session.get(key) of a key never set, and an unset object
None == [kind |-> "None"]

\* before initialize_mcp_client has built the MultiServerMCPClient
NoClient == [created |-> FALSE, closed |-> FALSE, fetches |-> 0]

\* no handler has run yet; nothing shown
NoCall == [handler |-> "none", outcome |-> "none", raised |-> FALSE]
NothingShown == [messages |-> <<>>, step |-> None, steps |-> <<>>,
                 streamed |-> <<>>, elements |-> <<>>]

\* the chat application with no session connected
AIdle ==
    /\ user_session = EmptyBag
    /\ mcp_client = NoClient
    /\ now = 0
    /\ a_pc = "idle"
    /\ a_call = NoCall
    /\ a_shown = NothingShown
    /\ a_logged = <<>>

\* the weather server with nothing to do
WIdle ==
    /\ API_KEY = ""
    /\ w_request = NoRequest
    /\ w_response = NoResponse
    /\ w_pc = "idle"
    /\ w_http = <<>>
    /\ w_result = NoResult

\* the travel server with nothing to do
TIdle ==
    /\ t_request = NoRequest
    /\ t_pc = "idle"
    /\ t_locals = NoLocals
    /\ t_result = NoResult

\* the travel server with a request waiting
InitTravel ==
    /\ \/ \E c \in ConditionTexts, t \in Temperatures,
             p \in Opt(PreferenceLists), d \in Opt({"short", "medium"}) :
              t_request = Request("suggest_activities", ActivitiesBag("Milano", c, t, p, d))
       \/ \E l \in {"Roma", "UnknownCity"}, c \in Words, t \in Temperatures :
              t_request = Request("suggest_activities", ActivitiesBag(l, c, t, <<>>, <<>>))
       \/ \E a \in ActivitiesBagsMissing : t_request = Request("suggest_activities", a)
       \/ \E a \in RestaurantsBags : t_request = Request("suggest_restaurants", a)
       \/ \E a \in ItineraryBags : t_request = Request("create_itinerary", a)
       \/ \E c \in ConditionTexts, t \in Temperatures :
              t_request = Request("get_travel_tips", TipsBag(c, t))
       \/ \E a \in TipsBagsMissing : t_request = Request("get_travel_tips", a)
       \/ \E n \in UnknownNames, a \in UnknownBags : t_request = Request(n, a)
    /\ t_pc = "pending"
    /\ t_locals = NoLocals
    /\ t_result = NoResult
    /\ WIdle
    /\ AIdle

(***************************************************************************)
(* Travel server: one action per tool, each the whole call_tool handler.   *)
(***************************************************************************)
TravelCall(name, arguments) ==
    /\ t_pc' = "done"
    /\ t_locals' = TravelLocals(name, arguments)
    /\ t_result' = TravelCallTool(name, arguments)
    /\ UNCHANGED <<t_request, wvars, avars>>

SuggestActivities ==
    /\ t_pc = "pending"
    /\ t_request.name = "suggest_activities"
    /\ TravelCall(t_request.name, t_request.arguments)

SuggestRestaurants ==
    /\ t_pc = "pending"
    /\ t_request.name = "suggest_restaurants"
    /\ TravelCall(t_request.name, t_request.arguments)

CreateItinerary ==
    /\ t_pc = "pending"
    /\ t_request.name = "create_itinerary"
    /\ TravelCall(t_request.name, t_request.arguments)

GetTravelTips ==
    /\ t_pc = "pending"
    /\ t_request.name = "get_travel_tips"
    /\ TravelCall(t_request.name, t_request.arguments)

TravelUnknownTool ==
    /\ t_pc = "pending"
    /\ t_request.name \notin TravelToolNames
    /\ TravelCall(t_request.name, t_request.arguments)

TravelNext ==
    \/ SuggestActivities
    \/ SuggestRestaurants
    \/ CreateItinerary
    \/ GetTravelTips
    \/ TravelUnknownTool

SpecTravel == InitTravel /\ [][TravelNext]_vars

(***************************************************************************)
(* Properties of the planning engine (checked under SpecTravel).           *)
(***************************************************************************)
\* character c is letter k (given in lower case) in either letter case
SameLetter(c, k) ==
    c = k \/ \E i \in 1..Len(LowerCase) : LowerCase[i] = k /\ UpperCase[i] = c

\* text holds keyword kw at some position, in any letter case
Mentions(text, kw) ==
    \E i \in 1..(Len(text) - Len(kw) + 1) :
        \A j \in 1..Len(kw) : SameLetter(text[i + j - 1], kw[j])

RainCue(text) ==
    Mentions(text, <<"r","a","i","n">>) \/ Mentions(text, <<"p","i","o","g","g","i","a">>)
SnowCue(text) ==
    Mentions(text, <<"s","n","o","w">>) \/ Mentions(text, <<"n","e","v","e">>)
ClearCue(text) ==
    \/ Mentions(text, <<"s","u","n","n","y">>)
    \/ Mentions(text, <<"c","l","e","a","r">>)
    \/ Mentions(text, <<"s","e","r","e","n","o">>)

\* the call handled went through classify_weather
Classified == t_pc = "done" /\ t_locals.weather_class # "none"

\* the call handled is a suggest_activities call that reached the selection
ActivitiesSuggested == Classified /\ t_request.name = "suggest_activities"

\* the call handled is a suggest_restaurants call with a location
RestaurantsSuggested ==
    /\ t_pc = "done"
    /\ t_request.name = "suggest_restaurants"
    /\ "location" \in DOMAIN t_request.arguments

\* C5: in classify_weather textual cues take precedence over temperature:
\* a rain keyword (English or Italian, any letter case) yields rain at every
\* temperature; otherwise a snow keyword yields snow; otherwise a clear-sky
\* keyword yields hot above 28 degrees and sunny otherwise; and the four
\* examples ("Heavy rain",10), ("Clear",30), ("Clear",20), ("Overcast",3)
\* yield rain, hot, sunny, cold.
C5_TextualCuesFirst ==
    Classified =>
        LET text == t_request.arguments["weather_condition"]
            temp == t_request.arguments["temperature"]
            class == t_locals.weather_class
        IN  /\ RainCue(text) => class = "rain"
            /\ (~RainCue(text) /\ SnowCue(text)) => class = "snow"
            /\ (~RainCue(text) /\ ~SnowCue(text) /\ ClearCue(text))
                   => class = (IF temp > 28 THEN "hot" ELSE "sunny")
            /\ (text = <<"H","e","a","v","y"," ","r","a","i","n">> /\ temp = 10)
                   => class = "rain"
            /\ (text = <<"C","l","e","a","r">> /\ temp = 30) => class = "hot"
            /\ (text = <<"C","l","e","a","r">> /\ temp = 20) => class = "sunny"
            /\ (text = <<"O","v","e","r","c","a","s","t">> /\ temp = 3) => class = "cold"

\* a hot day whose text mentions both snow and rain has been classified rain
C5_Witness ==
    /\ Classified
    /\ RainCue(t_request.arguments["weather_condition"])
    /\ SnowCue(t_request.arguments["weather_condition"])
    /\ t_request.arguments["temperature"] > 28
    /\ t_locals.weather_class = "rain"

\* C6 (as claimed): a condition text with no rain, snow or clear-sky keyword
\* is classified by temperature alone: hot above 28, cold below 5, mild
\* below 18, partly_cloudy otherwise.
C6_TemperatureBands ==
    Classified =>
        LET text == t_request.arguments["weather_condition"]
            temp == t_request.arguments["temperature"]
        IN  (~RainCue(text) /\ ~SnowCue(text) /\ ~ClearCue(text)) =>
                t_locals.weather_class =
                    (IF temp > 28 THEN "hot"
                     ELSE IF temp < 5 THEN "cold"
                     ELSE IF temp < 18 THEN "mild"
                     ELSE "partly_cloudy")

\* preferences, as the handler reads them
RequestPreferences == Get(t_request.arguments, "preferences", <<>>)

\* an activity is an entry of the given table of ACTIVITIES_DB
InTable(activity, category) == InList(activity, ACTIVITIES_DB[category])

\* C7: suggest_activities with a condition text classified as rain, empty
\* preferences and duration medium lists at most 5 activities, each from the
\* indoor or the mixed table and suitable for rain or for any weather.
C7_RainyDayActivities ==
    (/\ ActivitiesSuggested
     /\ t_locals.weather_class = "rain"
     /\ Len(RequestPreferences) = 0
     /\ Get(t_request.arguments, "duration", "medium") = "medium")
    =>  LET items == t_result.content.text.items IN
        /\ ~t_result.raised
        /\ t_result.content.text.kind = "Attività consigliate"
        /\ Len(items) <= 5
        /\ \A i \in 1..Len(items) :
              /\ InTable(items[i], "indoor") \/ InTable(items[i], "mixed")
              /\ InList("rain", items[i].suitable_weather)
                 \/ InList("any", items[i].suitable_weather)

\* suggest_activities("Milano", "Rainy", 8, [], "medium") has listed 5 activities
C7_Witness ==
    /\ ActivitiesSuggested
    /\ t_request.arguments["location"] = "Milano"
    /\ t_request.arguments["weather_condition"] = <<"R","a","i","n","y">>
    /\ t_request.arguments["temperature"] = 8
    /\ "preferences" \in DOMAIN t_request.arguments
    /\ Len(t_request.arguments["preferences"]) = 0
    /\ "duration" \in DOMAIN t_request.arguments
    /\ t_request.arguments["duration"] = "medium"
    /\ Len(t_result.content.text.items) = 5

\* C8 (as claimed): for every input every activity of the mixed pool is
\* appended to the candidates after the primary-category selection.
C8_MixedAlwaysAppended ==
    ActivitiesSuggested =>
        t_locals.after_mixed = t_locals.after_primary \o ACTIVITIES_DB["mixed"]

\* the part of the candidates added by the mixed loop
MixedPart ==
    SubSeq(t_locals.after_mixed, Len(t_locals.after_primary) + 1,
           Len(t_locals.after_mixed))

\* C8 (amended): the candidates after the mixed loop are the primary
\* selection followed, in table order, by exactly the mixed activities that
\* pass the preference filter: all of them when preferences is empty,
\* otherwise those whose type is among the preferences.
C8_MixedAppendedByPreference ==
    ActivitiesSuggested =>
        LET mixed == ACTIVITIES_DB["mixed"]
            wanted(a) == Len(RequestPreferences) = 0 \/ InList(a.type, RequestPreferences)
        IN  /\ Len(t_locals.after_mixed) >= Len(t_locals.after_primary)
            /\ SubSeq(t_locals.after_mixed, 1, Len(t_locals.after_primary))
                   = t_locals.after_primary
            /\ \A i \in 1..Len(mixed) : wanted(mixed[i]) <=> InList(mixed[i], MixedPart)
            /\ \A i \in 1..Len(MixedPart) : InTable(MixedPart[i], "mixed")
            /\ \A i, j \in 1..Len(MixedPart) :
                  i < j => \E m, n \in 1..Len(mixed) :
                              m < n /\ mixed[m] = MixedPart[i] /\ mixed[n] = MixedPart[j]

\* with preferences ["cultura"] the mixed loop has added one of the two
\* mixed activities after a non-empty primary selection
C8_Witness ==
    /\ ActivitiesSuggested
    /\ RequestPreferences = <<"cultura">>
    /\ Len(t_locals.after_primary) > 0
    /\ Len(MixedPart) = 1
    /\ MixedPart[1].type = "cultura"

\* C9: for a location that is no key of the restaurant table, and any
\* meal_type, cuisine_type and budget, suggest_restaurants draws its
\* candidates from the default list and returns a text result.
C9_UnknownCityDefaults ==
    (RestaurantsSuggested /\ t_request.arguments["location"] \notin DOMAIN RESTAURANTS_DB)
    =>  LET items == t_result.content.text.items IN
        /\ ~t_result.raised
        /\ t_result.content.type = "text"
        /\ t_result.content.text.kind = "Ristoranti consigliati"
        /\ \A i \in 1..Len(items) : InList(items[i], RESTAURANTS_DB["default"])
        /\ Get(t_request.arguments, "budget", "€€") = "€€"
               => items = RESTAURANTS_DB["default"]

\* suggest_restaurants("UnknownCity") has listed the default restaurant
C9_Witness ==
    /\ RestaurantsSuggested
    /\ t_request.arguments["location"] = "UnknownCity"
    /\ Len(t_result.content.text.items) = 1
    /\ t_result.content.text.items[1].name = "Ristorante Locale"

\* the table the request's location selects, written out by key
RequestTable ==
    LET location == t_request.arguments["location"] IN
    IF location = "Milano" THEN RESTAURANTS_DB["Milano"]
    ELSE IF location = "Roma" THEN RESTAURANTS_DB["Roma"]
    ELSE RESTAURANTS_DB["default"]

\* how many entries of a list have the given price
RECURSIVE CountPrice(_, _)
CountPrice(lst, price) ==
    IF Len(lst) = 0 THEN 0
    ELSE (IF lst[1].price = price THEN 1 ELSE 0) + CountPrice(Tail(lst), price)

\* C10: with budget "€€" (given or defaulted) every entry of the location's
\* list is kept whatever its price; with any other budget exactly the
\* entries priced at the budget are kept; at most the first 3 kept entries
\* are listed, in table order.
C10_BudgetFilter ==
    RestaurantsSuggested =>
        LET items == t_result.content.text.items
            budget == Get(t_request.arguments, "budget", "€€")
            table == RequestTable
        IN  /\ Len(items) <= 3
            /\ budget = "€€" => items = Take(table, 3)
            /\ budget # "€€" =>
                  /\ \A i \in 1..Len(items) : items[i].price = budget
                  /\ Len(items) = (IF CountPrice(table, budget) < 3
                                   THEN CountPrice(table, budget) ELSE 3)
            /\ \A i \in 1..Len(items) : InList(items[i], table)
            /\ \A i, j \in 1..Len(items) :
                  i < j => \E m, n \in 1..Len(table) :
                              m < n /\ table[m] = items[i] /\ table[n] = items[j]

\* with budget "€€" the listing for Milano holds Luini, whose price is "€"
C10_Witness ==
    /\ RestaurantsSuggested
    /\ t_request.arguments["location"] = "Milano"
    /\ Get(t_request.arguments, "budget", "€€") = "€€"
    /\ Len(t_result.content.text.items) = 3
    /\ t_result.content.text.items[2].price = "€"

(***************************************************************************)
(* server.py: argument values and int().                                   *)
(***************************************************************************)
\* a JSON integer and a JSON string, as values of the argument "days"
IntValue(n) == [type |-> "int", int |-> n, str |-> <<>>]
StrValue(s) == [type |-> "str", int |-> 0, str |-> s]

Digits == <<"0","1","2","3","4","5","6","7","8","9">>

IsDigit(c) == \E i \in 1..Len(Digits) : Digits[i] = c

DigitValue(c) == (CHOOSE i \in 1..Len(Digits) : Digits[i] = c) - 1

\* str.strip() on blanks, which int() applies first
RECURSIVE Strip(_)
Strip(s) ==
    IF Len(s) > 0 /\ s[1] = " " THEN Strip(Tail(s))
    ELSE IF Len(s) > 0 /\ s[Len(s)] = " " THEN Strip(SubSeq(s, 1, Len(s) - 1))
    ELSE s

\* the value of a sequence of decimal digits
RECURSIVE DecimalValue(_)
DecimalValue(s) ==
    IF Len(s) = 0 THEN 0
    ELSE DecimalValue(SubSeq(s, 1, Len(s) - 1)) * 10 + DigitValue(s[Len(s)])

\* int(s) for a str: blanks stripped, an optional sign, then decimal digits;
\* anything else is a ValueError
IntOf(s) ==
    LET t == Strip(s)
        signed == Len(t) > 0 /\ t[1] \in {"+", "-"}
        body == IF signed THEN Tail(t) ELSE t
    IN  IF Len(body) > 0 /\ \A i \in 1..Len(body) : IsDigit(body[i])
        THEN [ok |-> TRUE,
              value |-> IF signed /\ t[1] = "-" THEN 0 - DecimalValue(body)
                        ELSE DecimalValue(body)]
        ELSE [ok |-> FALSE, value |-> 0]

\* ValueError of int(): the message quotes the literal, not an argument name
ValueError(s) ==
    [type |-> "ValueError",
     str |-> <<"invalid literal for int() with base 10: ", "'">> \o s \o <<"'">>]

\* TypeError of indexing a list or a str with a str key
TypeError(what) ==
    [type |-> "TypeError", str |-> <<what, " indices must be integers">>]

(***************************************************************************)
(* server.py: build_url and make_request.                                  *)
(***************************************************************************)
\* build_url: the endpoint, and the parameters given plus the key; a
\* parameter absent from params stands for one whose value is None
build_url(endpoint, params) ==
    [endpoint |-> endpoint, params |-> params @@ ("key" :> API_KEY)]

\* the exception make_request raises for a response, if any
HTTPStatusError(response) ==
    [type |-> "HTTPStatusError", str |-> <<"HTTPStatusError">>, response |-> response]

ConnectError(response) == [type |-> "ConnectError", str |-> response.message]

TimeoutException(response) == [type |-> "ReadTimeout", str |-> response.message]

JSONDecodeError == [type |-> "JSONDecodeError", str |-> <<"Expecting value">>]

\* make_request(url): one GET, raise_for_status(), response.json()
make_request(url, response) ==
    [http |-> <<url>>,
     out |-> IF response.kind = "network_error" THEN Raise(ConnectError(response))
             ELSE IF response.kind = "timeout" THEN Raise(TimeoutException(response))
             ELSE IF response.kind = "status" THEN Raise(HTTPStatusError(response))
             ELSE IF response.kind = "ok_not_json" THEN Raise(JSONDecodeError)
             ELSE [outcome |-> "data", data |-> response.body]]

(***************************************************************************)
(* server.py: call_tool, one operator per branch.  A branch yields the     *)
(* GETs it issued (http) and how it ended (out).  A JSON answer is kept as  *)
(* its shape: an object with the top-level keys it holds, or a list of n    *)
(* location objects; missing names a nested field the answer lacks ("" when *)
(* it lacks none).                                                          *)
(***************************************************************************)
NoGet(out) == [http |-> <<>>, out |-> out]

\* the steps after make_request: give up on an exception, else format
Then(r, text) == IF r.out.outcome = "raise" THEN r ELSE [http |-> r.http, out |-> text]

\* location = data["location"]; x = data[key]; then the f-string over them
ReadObject(data, key, payload) ==
    IF data.shape = "list" THEN Raise(TypeError("list"))
    ELSE IF "location" \notin data.keys THEN Raise(KeyError("location"))
    ELSE IF key \notin data.keys THEN Raise(KeyError(key))
    ELSE IF data.missing # "" THEN Raise(KeyError(data.missing))
    ELSE Return(payload)

\* the branch reading q with arguments.get("q"): a missing q is dropped from
\* the query like any None and the GET goes out
GetCurrentWeatherBody_GetQ(arguments, response) ==
    LET url == build_url("current",
                   (IF "q" \in DOMAIN arguments THEN ("q" :> arguments["q"]) ELSE EmptyBag)
                   @@ ("aqi" :> Get(arguments, "aqi", "no"))
                   @@ ("lang" :> Get(arguments, "lang", "en")))
        r == make_request(url, response)
    IN  Then(r, ReadObject(r.out.data, "current",
                   [kind |-> "Meteo Attuale",
                    air_quality |-> /\ Get(arguments, "aqi", "") = "yes"
                                    /\ "current.air_quality" \in r.out.data.keys]))

GetCurrentWeatherBody(arguments, response) ==
    IF "q" \notin DOMAIN arguments THEN NoGet(Raise(KeyError("q")))
    ELSE LET url == build_url("current",
                        ("q" :> arguments["q"])
                        @@ ("aqi" :> Get(arguments, "aqi", "no"))
                        @@ ("lang" :> Get(arguments, "lang", "en")))
             r == make_request(url, response)
         IN  Then(r, ReadObject(r.out.data, "current",
                        [kind |-> "Meteo Attuale",
                         air_quality |-> /\ Get(arguments, "aqi", "") = "yes"
                                         /\ "current.air_quality" \in r.out.data.keys]))

GetForecastBody(arguments, response) ==
    LET days == Get(arguments, "days", IntValue(3)) IN
    IF days.type = "str" /\ ~IntOf(days.str).ok THEN NoGet(Raise(ValueError(days.str)))
    ELSE IF "q" \notin DOMAIN arguments THEN NoGet(Raise(KeyError("q")))
    ELSE LET url == build_url("forecast",
                        ("q" :> arguments["q"])
                        @@ ("days" :> IF days.type = "str" THEN IntOf(days.str).value
                                      ELSE days.int)
                        @@ ("aqi" :> Get(arguments, "aqi", "no"))
                        @@ ("alerts" :> Get(arguments, "alerts", "yes"))
                        @@ ("lang" :> Get(arguments, "lang", "en")))
             r == make_request(url, response)
         IN  Then(r, ReadObject(r.out.data, "forecast",
                        [kind |-> "Previsioni Meteo",
                         alerts |-> "alerts" \in r.out.data.keys]))

GetHistoryBody(arguments, response) ==
    IF "q" \notin DOMAIN arguments THEN NoGet(Raise(KeyError("q")))
    ELSE IF "dt" \notin DOMAIN arguments THEN NoGet(Raise(KeyError("dt")))
    ELSE LET url == build_url("history",
                        ("q" :> arguments["q"])
                        @@ ("dt" :> arguments["dt"])
                        @@ (IF "end_dt" \in DOMAIN arguments
                            THEN ("end_dt" :> arguments["end_dt"]) ELSE EmptyBag)
                        @@ ("lang" :> Get(arguments, "lang", "en")))
             r == make_request(url, response)
         IN  Then(r, ReadObject(r.out.data, "forecast", [kind |-> "Dati Storici"]))

\* if not data: ...; for loc in data: the f-string over loc
ReadLocations(data) ==
    IF data.shape = "list"
    THEN IF data.n = 0 THEN Return([kind |-> "Nessuna località trovata."])
         ELSE IF data.missing # "" THEN Raise(KeyError(data.missing))
         ELSE Return([kind |-> "Località trovate", n |-> data.n])
    ELSE IF data.keys = {} THEN Return([kind |-> "Nessuna località trovata."])
         ELSE Raise(TypeError("string"))

SearchLocationBody(arguments, response) ==
    IF "q" \notin DOMAIN arguments THEN NoGet(Raise(KeyError("q")))
    ELSE LET url == build_url("search", ("q" :> arguments["q"]))
             r == make_request(url, response)
         IN  Then(r, ReadLocations(r.out.data))

GetAstronomyBody(arguments, response) ==
    IF "q" \notin DOMAIN arguments THEN NoGet(Raise(KeyError("q")))
    ELSE LET url == build_url("astronomy",
                        ("q" :> arguments["q"])
                        @@ (IF "dt" \in DOMAIN arguments
                            THEN ("dt" :> arguments["dt"]) ELSE EmptyBag))
             r == make_request(url, response)
         IN  Then(r, ReadObject(r.out.data, "astronomy", [kind |-> "Dati Astronomici"]))

\* the if/elif chain over name
WeatherBody(name, arguments, response) ==
    IF name = "get_current_weather" THEN GetCurrentWeatherBody(arguments, response)
    ELSE IF name = "get_forecast" THEN GetForecastBody(arguments, response)
    ELSE IF name = "get_history" THEN GetHistoryBody(arguments, response)
    ELSE IF name = "search_location" THEN SearchLocationBody(arguments, response)
    ELSE IF name = "get_astronomy" THEN GetAstronomyBody(arguments, response)
    ELSE NoGet(Return(UnknownToolPayload(name)))

\* except httpx.HTTPStatusError as e: "Errore HTTP <status>" and, when the
\* body is JSON holding error.message, ": <message>"; the inner bare except
\* drops every failure to read the body
HttpErrorPayload(response) ==
    [kind |-> "Errore HTTP",
     status_code |-> response.status_code,
     detail |-> IF response.error_body = "message" THEN <<": ", response.message>>
                ELSE IF response.error_body = "no_message"
                THEN <<": ", "Errore sconosciuto">>
                ELSE <<>>]

\* the two except clauses of call_tool
WeatherCatch(outcome) ==
    IF outcome.outcome = "raise"
    THEN IF outcome.exc.type = "HTTPStatusError"
         THEN Return(HttpErrorPayload(outcome.exc.response))
         ELSE Return(ErrorePayload(outcome.exc))
    ELSE outcome

\* if not API_KEY: return "Errore: WEATHERAPI_KEY non configurata. ..."
MissingKeyPayload == [kind |-> "Errore: WEATHERAPI_KEY non configurata."]

\* call_tool without the API_KEY test
WeatherCallTool_NoKeyCheck(name, arguments, response) ==
    LET b == WeatherBody(name, arguments, response) IN
    [http |-> b.http, result |-> ToolResult(WeatherCatch(b.out))]

\* server.call_tool: the result and the GETs issued
WeatherCallTool(name, arguments, response) ==
    IF API_KEY = ""
    THEN [http |-> <<>>, result |-> ToolResult(Return(MissingKeyPayload))]
    ELSE LET b == WeatherBody(name, arguments, response) IN
         [http |-> b.http, result |-> ToolResult(WeatherCatch(b.out))]

(***************************************************************************)
(* Inputs of the weather tools and answers of the provider.                *)
(***************************************************************************)
WeatherToolNames ==
    {"get_current_weather", "get_forecast", "get_history", "search_location",
     "get_astronomy"}

\* values of "days": integers inside and outside 1..14, strings that encode
\* such integers, and strings that encode none
DaysValues ==
    { IntValue(n) : n \in {0, 1, 3, 14, 15} }
    \cup { StrValue(s) : s \in { <<"3">>, <<"1","4">>, <<"2","0">>, <<"0">>,
                                 <<" ","7">>, <<"-","1">>, <<"a","b","c">>, <<>> } }

CurrentBags ==
    { Arg("q", q) @@ Arg("aqi", a) : q \in Opt({"London"}), a \in Opt({"yes", "no"}) }

ForecastBags ==
    { Arg("q", q) @@ Arg("days", d) @@ Arg("alerts", a) :
        q \in Opt({"London"}), d \in Opt(DaysValues), a \in Opt({"no"}) }

HistoryBags ==
    { Arg("q", q) @@ Arg("dt", d) @@ Arg("end_dt", e) :
        q \in Opt({"London"}), d \in Opt({"2023-01-15"}), e \in Opt({"2023-01-20"}) }

SearchBags == { Arg("q", q) @@ Arg("lang", l) : q \in Opt({"Lond"}), l \in Opt({"it"}) }

AstronomyBags ==
    { Arg("q", q) @@ Arg("dt", d) : q \in Opt({"London"}), d \in Opt({"2023-01-15"}) }

\* top-level keys of a JSON object the provider may answer with
ObjectKeySets ==
    { {}, {"location"}, {"location", "current"},
      {"location", "current", "current.air_quality"},
      {"location", "forecast"}, {"location", "forecast", "alerts"},
      {"location", "astronomy"}, {"error"} }

JsonObject(keys, missing) == [shape |-> "object", keys |-> keys, n |-> 0, missing |-> missing]
JsonList(n, missing) == [shape |-> "list", keys |-> {}, n |-> n, missing |-> missing]

\* how the body of a non-2xx answer reads: {"error": {"message": m}},
\* {"error": {}}, an object without "error", no JSON at all, JSON that is no
\* object, {"error": "text"}
ErrorBodies == {"message", "no_message", "no_error", "not_json", "not_object", "error_not_object"}

\* the provider's answer is one of Responses
IsResponse(r) ==
    \/ \E k \in ObjectKeySets, m \in {"", "name"} :
          r = [kind |-> "ok", body |-> JsonObject(k, m)]
    \/ \E n \in 0..MaxLocations, m \in {"", "name"} :
          r = [kind |-> "ok", body |-> JsonList(n, m)]
    \/ r = [kind |-> "ok_not_json"]
    \/ \E c \in {400, 401, 500}, b \in ErrorBodies :
          r = [kind |-> "status", status_code |-> c, error_body |-> b,
               message |-> "No matching location found."]
    \/ r = [kind |-> "network_error", message |-> <<"All connection attempts failed">>]
    \/ \E m \in {<<>>, <<"timed out">>} : r = [kind |-> "timeout", message |-> m]

\* the weather server with a request waiting; the key is whatever the
\* environment held when the module was loaded
InitWeather ==
    /\ API_KEY \in {"", "secret"}
    /\ \/ \E a \in CurrentBags : w_request = Request("get_current_weather", a)
       \/ \E a \in ForecastBags : w_request = Request("get_forecast", a)
       \/ \E a \in HistoryBags : w_request = Request("get_history", a)
       \/ \E a \in SearchBags : w_request = Request("search_location", a)
       \/ \E a \in AstronomyBags : w_request = Request("get_astronomy", a)
       \/ \E n \in UnknownNames, a \in UnknownBags : w_request = Request(n, a)
    /\ IsResponse(w_response)
    /\ w_pc = "pending"
    /\ w_http = <<>>
    /\ w_result = NoResult
    /\ TIdle
    /\ AIdle

(***************************************************************************)
(* Weather server: one action per tool, each the whole call_tool handler.  *)
(***************************************************************************)
WeatherCall(name, arguments) ==
    LET c == WeatherCallTool(name, arguments, w_response) IN
    /\ w_pc' = "done"
    /\ w_http' = c.http
    /\ w_result' = c.result
    /\ UNCHANGED <<API_KEY, w_request, w_response, tvars, avars>>

GetCurrentWeather ==
    /\ w_pc = "pending"
    /\ w_request.name = "get_current_weather"
    /\ WeatherCall(w_request.name, w_request.arguments)

GetForecast ==
    /\ w_pc = "pending"
    /\ w_request.name = "get_forecast"
    /\ WeatherCall(w_request.name, w_request.arguments)

GetHistory ==
    /\ w_pc = "pending"
    /\ w_request.name = "get_history"
    /\ WeatherCall(w_request.name, w_request.arguments)

SearchLocation ==
    /\ w_pc = "pending"
    /\ w_request.name = "search_location"
    /\ WeatherCall(w_request.name, w_request.arguments)

GetAstronomy ==
    /\ w_pc = "pending"
    /\ w_request.name = "get_astronomy"
    /\ WeatherCall(w_request.name, w_request.arguments)

WeatherUnknownTool ==
    /\ w_pc = "pending"
    /\ w_request.name \notin WeatherToolNames
    /\ WeatherCall(w_request.name, w_request.arguments)

WeatherNext ==
    \/ GetCurrentWeather
    \/ GetForecast
    \/ GetHistory
    \/ SearchLocation
    \/ GetAstronomy
    \/ WeatherUnknownTool

SpecWeather == InitWeather /\ [][WeatherNext]_vars

(***************************************************************************)
(* Properties of the dispatchers (checked under SpecWeather).              *)
(***************************************************************************)
\* the weather call handled names a tool of the registry
WeatherToolCalled == w_pc = "done" /\ w_request.name \in WeatherToolNames

\* the required arguments of a weather tool, in the order the code reads them
Required(name) == IF name = "get_history" THEN <<"q", "dt">> ELSE <<"q">>

\* the required arguments the request lacks, in that order
MissingRequired ==
    SelectSeq(Required(w_request.name), LAMBDA k : k \notin DOMAIN w_request.arguments)

\* the payload is an error text that names field f
ErrorNaming(payload, f) == payload.kind = "Errore" /\ InList(f, payload.message)

\* a result marked as an error whose payload is "unknown tool: <name>"
UnknownToolError(result, name) ==
    /\ ~result.raised
    /\ result.is_error
    /\ result.content.text = UnknownToolPayload(name)

\* C1 (as claimed): for a tool name that is in neither registry's tool list,
\* and every argument bag, the call returns a result marked is_error = true
\* whose payload is "unknown tool: <name>", and the dispatcher never raises.
C1_UnknownToolIsError ==
    /\ (w_pc = "done" /\ w_request.name \notin WeatherToolNames)
           => UnknownToolError(w_result, w_request.name)
    /\ (t_pc = "done" /\ t_request.name \notin TravelToolNames)
           => UnknownToolError(t_result, t_request.name)

\* C2 (as claimed): a weather tool called without one of its required
\* arguments returns an error payload naming a missing field and issues no
\* HTTP request.
C2_MissingArgumentNamed ==
    (WeatherToolCalled /\ Len(MissingRequired) > 0) =>
        /\ Len(w_http) = 0
        /\ \E i \in 1..Len(MissingRequired) :
               ErrorNaming(w_result.content.text, MissingRequired[i])

\* the request is a get_forecast whose days is a string that int() rejects
DaysNotAnInteger ==
    /\ w_request.name = "get_forecast"
    /\ "days" \in DOMAIN w_request.arguments
    /\ w_request.arguments["days"].type = "str"
    /\ ~IntOf(w_request.arguments["days"].str).ok

\* C2 (amended): a weather tool called without one of its required
\* arguments issues no HTTP request and returns a text: the credential error
\* when the key is unset; the int() conversion error when get_forecast is
\* given a days string that encodes no integer; otherwise "Errore: " and the
\* quoted name of the first missing required field.
C2_MissingArgumentNoRequest ==
    (WeatherToolCalled /\ Len(MissingRequired) > 0) =>
        /\ Len(w_http) = 0
        /\ ~w_result.raised
        /\ w_result.content.type = "text"
        /\ IF API_KEY = "" THEN w_result.content.text = MissingKeyPayload
           ELSE IF DaysNotAnInteger
           THEN /\ w_result.content.text.kind = "Errore"
                /\ w_result.content.text.message[1]
                       = "invalid literal for int() with base 10: "
                /\ ~InList("q", w_result.content.text.message)
           ELSE w_result.content.text
                    = [kind |-> "Errore", message |-> <<"'", MissingRequired[1], "'">>]

\* get_history called with q and without dt, the key being set, has answered
\* "Errore: 'dt'" without a GET
C2_Witness ==
    /\ WeatherToolCalled
    /\ API_KEY # ""
    /\ w_request.name = "get_history"
    /\ MissingRequired = <<"dt">>
    /\ ErrorNaming(w_result.content.text, "dt")
    /\ Len(w_http) = 0

\* C3: with the credential missing or empty every weather call, whatever the
\* tool name and the arguments, returns the same explanatory error text and
\* issues no HTTP request.
C3_MissingKeyShortCircuits ==
    (w_pc = "done" /\ API_KEY = "") =>
        /\ ~w_result.raised
        /\ w_result.content.type = "text"
        /\ w_result.content.text = MissingKeyPayload
        /\ Len(w_http) = 0

\* a complete get_forecast request has been refused for want of the key
C3_Witness ==
    /\ w_pc = "done"
    /\ API_KEY = ""
    /\ w_request.name = "get_forecast"
    /\ "q" \in DOMAIN w_request.arguments
    /\ w_response.kind = "ok"
    /\ w_result.content.text = MissingKeyPayload

\* the HTTP call of the request handled has failed: no answer, a non-2xx
\* status, or a body that is no JSON
HttpCallFailed ==
    Len(w_http) > 0 /\ w_response.kind \in {"network_error", "timeout", "status", "ok_not_json"}

\* C4 (as claimed): every weather call, whatever the outcome of the HTTP
\* call, returns a text result and never raises, and every failing outcome
\* yields a result marked is_error = true.
C4_FailuresMarkedAsErrors ==
    WeatherToolCalled =>
        /\ ~w_result.raised
        /\ w_result.content.type = "text"
        /\ HttpCallFailed => w_result.is_error

(***************************************************************************)
(* travel_server.py: the timeline of create_itinerary.                     *)
(***************************************************************************)
\* create_itinerary has returned its itinerary
ItineraryCreated ==
    /\ t_pc = "done"
    /\ t_request.name = "create_itinerary"
    /\ ~t_result.raised
    /\ t_result.content.text.kind = "Itinerario"

\* the times, and the kinds, of the entries of a timeline, in order
TimesOf(timeline) == [k \in 1..Len(timeline) |-> timeline[k].time]
KindsOf(timeline) == [k \in 1..Len(timeline) |-> timeline[k].type]
ItemsOf(timeline) == [k \in 1..Len(timeline) |-> timeline[k].item]

\* C11: create_itinerary called with 3 activities and 2 restaurants produces
\* exactly 5 timeline entries, at 09:00, 11:00, 13:00, 15:00, 17:00 in that
\* order, whose kinds are activity, restaurant, activity, restaurant,
\* activity (and whose items are the arguments' entries in their order).
C11_ThreeActivitiesTwoRestaurants ==
    (/\ ItineraryCreated
     /\ Len(t_request.arguments["activities"]) = 3
     /\ Len(Get(t_request.arguments, "restaurants", <<>>)) = 2) =>
        LET timeline == t_result.content.text.timeline
            a == t_request.arguments["activities"]
            r == t_request.arguments["restaurants"]
        IN  /\ Len(timeline) = 5
            /\ TimesOf(timeline) = <<"09:00", "11:00", "13:00", "15:00", "17:00">>
            /\ KindsOf(timeline) =
                   <<"activity", "restaurant", "activity", "restaurant", "activity">>
            /\ ItemsOf(timeline) = <<a[1], r[1], a[2], r[2], a[3]>>

\* an itinerary for 3 activities and 2 restaurants has been produced, and its
\* last entry is the third activity at 17:00
C11_Witness ==
    /\ ItineraryCreated
    /\ Len(t_request.arguments["activities"]) = 3
    /\ Len(Get(t_request.arguments, "restaurants", <<>>)) = 2
    /\ Len(t_result.content.text.timeline) = 5
    /\ t_result.content.text.timeline[5] =
           [time |-> "17:00", item |-> "activity3", type |-> "activity"]

(***************************************************************************)
(* server.py: the days argument of get_forecast.                           *)
(***************************************************************************)
\* the integer that get_forecast works with: int(days) for a string, the
\* value itself for an integer, 3 when the argument is absent
DaysAfterCoercion(arguments) ==
    LET days == Get(arguments, "days", IntValue(3))
    IN  IF days.type = "str" THEN IntOf(days.str).value ELSE days.int

\* get_forecast has been handled, with the key set, a location given and a
\* days argument that is an integer or encodes one
ForecastWithDays ==
    /\ w_pc = "done"
    /\ w_request.name = "get_forecast"
    /\ API_KEY # ""
    /\ "q" \in DOMAIN w_request.arguments
    /\ ~DaysNotAnInteger

\* the coercion alone: whenever get_forecast issues its GET, the days
\* parameter of the URL is the integer after coercion, whatever its range
DaysCoercedInUrl ==
    (ForecastWithDays /\ Len(w_http) > 0) =>
        w_http[1].params["days"] = DaysAfterCoercion(w_request.arguments)

\* C17 (as claimed): for get_forecast, a days argument given as a
\* string-encoded integer is coerced to the integer before range validation,
\* and a days value outside 1..14 (after coercion) surfaces as an error
\* payload, not a process abort and not a request to the weather provider.
C17_DaysRangeValidated ==
    (/\ ForecastWithDays
     /\ DaysAfterCoercion(w_request.arguments) \notin 1..14) =>
        /\ ~w_result.raised
        /\ w_result.content.type = "text"
        /\ w_result.content.text.kind = "Errore"
        /\ Len(w_http) = 0

(***************************************************************************)
(* app.py: the Chainlit session handlers.                                  *)
(*                                                                         *)
(* One behaviour is one chat session: on_chat_start, then user messages    *)
(* and settings updates in any order, then on_chat_end.  Each handler is   *)
(* one action.  What the LLM, the agent and the tool servers do during a   *)
(* handler is its input `env`.  a_shown and a_logged hold what the handler *)
(* that ran last showed to the user and wrote to the log.                  *)
(***************************************************************************)
MaxClock == 3        \* handler runs in one session

PreviewLimit == 200      \* stream_tool_response: len(response) > 200
StepPreviewLimit == 500  \* main: tool_content[:500]

PROVIDER_MODELS ==
    [OpenAI |-> <<"gpt-4o", "gpt-4o-mini", "gpt-4-turbo">>,
     Anthropic |-> <<"claude-3-5-sonnet-20241022", "claude-3-haiku-20240307">>,
     Groq |-> <<"openai/gpt-oss-120b", "llama-3.3-70b-versatile",
                "llama-3.1-70b-versatile", "mixtral-8x7b-32768">>]

\* an exception raised at a call site of a handler
Fault(where) == [type |-> "Exception", where |-> where]

\* traceback.format_exc() while the exception e is being handled
format_exc(e) == [kind |-> "traceback", exception |-> e]

\* a chat message as the user sees it
Message(content, author) == [content |-> content, author |-> author]

\* the three-dot suffix of a preview
Ellipsis == <<".", ".", ".">>

\* get_llm: the chat model bound to (provider, model); None for a provider
\* that is none of the three
get_llm(provider, model) ==
    IF provider = "OpenAI" THEN [class |-> "ChatOpenAI", model |-> model]
    ELSE IF provider = "Anthropic" THEN [class |-> "ChatAnthropic", model |-> model]
    ELSE IF provider = "Groq" THEN [class |-> "ChatGroq", model |-> model]
    ELSE None

\* client.get_tools(): the tool list fetched by the k-th call on the client
\* (5 weather tools and 4 travel tools)
get_tools(client) ==
    [client |-> [client EXCEPT !.fetches = @ + 1],
     tools |-> [fetch |-> client.fetches + 1, n |-> 9]]

\* initialize_mcp_client: build the client for the two stdio servers and
\* fetch its tools
initialize_mcp_client ==
    get_tools([created |-> TRUE, closed |-> FALSE, fetches |-> 0])

\* create_react_agent(llm, tools)
create_react_agent(llm, tools) == [kind |-> "agent", llm |-> llm, tools |-> tools]

\* cl.user_session.set(key, value)
SessionSet(session, key, value) == (key :> value) @@ session

\* what a handler hands back: the session and client it leaves, what it
\* showed and logged, how it ended, and whether the exception left the handler
Handled(session, client, shown, logged, outcome, raised) ==
    [session |-> session, client |-> client, shown |-> shown, logged |-> logged,
     outcome |-> outcome, raised |-> raised]

\* messages sent by a handler that opens no step
Shown(messages) == [NothingShown EXCEPT !.messages = messages]

\* the reference to the client object that the session stores
ClientRef == [kind |-> "MultiServerMCPClient"]

WelcomeMessage == Message([kind |-> "Benvenuto! Sto inizializzando l'agent..."], "System")

\* on_chat_start.  settings is what cl.ChatSettings(...).send() returned;
\* env.fault names the call that raises inside the try block, if any
start(settings, env) ==
    LET created == [created |-> TRUE, closed |-> FALSE, fetches |-> 0]
        init == initialize_mcp_client
        provider == Get(settings, "provider", "Groq")
        model == Get(settings, "model", "openai/gpt-oss-120b")
        llm == get_llm(provider, model)
        agent == create_react_agent(llm, init.tools)
        log1 == <<[level |-> "info", kind |-> "Inizializzazione MCP client..."]>>
        log2 == log1 \o <<[level |-> "info", kind |-> "MCP client inizializzato",
                           n |-> init.tools.n],
                          [level |-> "info", kind |-> "Inizializzazione LLM",
                           provider |-> provider, model |-> model]>>
        Failed(client, logged, e) ==
            Handled(EmptyBag, client,
                    Shown(<<WelcomeMessage,
                            Message([kind |-> "Errore durante l'inizializzazione",
                                     trace |-> format_exc(e)], "System")>>),
                    logged \o <<[level |-> "error", kind |-> "Errore inizializzazione",
                                 exception |-> e, trace |-> format_exc(e)]>>,
                    "failed", FALSE)
    IN  IF env.fault = "initialize_mcp_client"
        THEN Failed(created, log1, Fault("initialize_mcp_client"))
        ELSE IF env.fault = "get_llm"
        THEN Failed(init.client, log2, Fault("get_llm"))
        ELSE IF llm = None
        THEN Failed(init.client, log2 \o <<[level |-> "info", kind |-> "Creazione agent..."]>>,
                    Fault("create_react_agent"))
        ELSE Handled(SessionSet(SessionSet(SessionSet(SessionSet(SessionSet(EmptyBag,
                         "agent", agent), "mcp_client", ClientRef),
                         "provider", provider), "model", model),
                         "conversation_history", <<>>),
                     init.client,
                     Shown(<<WelcomeMessage,
                             Message([kind |-> "Agent inizializzato!",
                                      provider |-> provider, model |-> model,
                                      n_tools |-> init.tools.n], "System")>>),
                     log2 \o <<[level |-> "info", kind |-> "Creazione agent..."],
                               [level |-> "info", kind |-> "Agent inizializzato",
                                provider |-> provider, model |-> model]>>,
                     "initialized", FALSE)

\* a session update that also starts the conversation history afresh
Rebuilt_FreshHistory(session, agent, provider, model) ==
    SessionSet(SessionSet(SessionSet(SessionSet(session,
        "agent", agent), "provider", provider), "model", model),
        "conversation_history", <<>>)

\* the three cl.user_session.set calls of settings_update
Rebuilt(session, agent, provider, model) ==
    SessionSet(SessionSet(SessionSet(session,
        "agent", agent), "provider", provider), "model", model)

\* on_settings_update.  Nothing in it is inside a try block: an exception
\* leaves the handler
settings_update(session, client, settings, env) ==
    LET provider == settings["provider"]
        model == settings["model"]
        llm == get_llm(provider, model)
        held == Get(session, "mcp_client", None)
        fetched == get_tools(client)
        agent == create_react_agent(llm, fetched.tools)
    IN  IF provider \notin DOMAIN PROVIDER_MODELS
        THEN Handled(session, client, NothingShown, <<>>, "ignored", FALSE)
        ELSE IF env.fault = "get_llm"
        THEN Handled(session, client, NothingShown, <<>>, "get_llm", TRUE)
        ELSE IF held = None
        THEN Handled(session, client, NothingShown, <<>>, "AttributeError", TRUE)
        ELSE IF env.fault = "get_tools"
        THEN Handled(session, client, NothingShown, <<>>, "get_tools", TRUE)
        ELSE Handled(Rebuilt(session, agent, provider, model),
                     fetched.client,
                     Shown(<<Message([kind |-> "Configurazione aggiornata",
                                      provider |-> provider, model |-> model],
                                     "System")>>),
                     <<>>, "updated", FALSE)

\* on_chat_end: logs, looks the client up, and passes
end(session, client) ==
    Handled(session, client, NothingShown,
            <<[level |-> "info", kind |-> "Sessione chat terminata"]>>,
            "ended", FALSE)

(***************************************************************************)
(* app.py: rendering helpers.  A cl.Message under construction is a record *)
(* of the parts streamed into it and of its elements.                      *)
(***************************************************************************)
EmptyMessage == [content |-> <<>>, elements |-> <<>>]

\* stream_tool_call: the header, then the JSON of the arguments typed out
stream_tool_call(tool_name, tool_args, msg) ==
    [msg EXCEPT !.content = @ \o <<[kind |-> "Chiamata tool", tool |-> tool_name],
                                   [kind |-> "json", args |-> tool_args]>>]

\* stream_tool_response: a response longer than 200 characters is shown as
\* its first 200 characters plus "..." and attached in full as a cl.Text
\* element; a shorter one is typed out in full
stream_tool_response(tool_name, response, msg) ==
    LET header == [kind |-> "Risposta da", tool |-> tool_name]
    IN  IF Len(response) > PreviewLimit
        THEN [content |-> msg.content
                  \o <<header, [kind |-> "code",
                                text |-> SubSeq(response, 1, PreviewLimit) \o Ellipsis]>>,
              elements |-> Append(msg.elements,
                                  [name |-> <<"tool_response_", tool_name>>,
                                   content |-> response,
                                   display |-> "inline", language |-> "text"])]
        ELSE [msg EXCEPT !.content = @ \o <<header, [kind |-> "text", text |-> response]>>]

(***************************************************************************)
(* app.py: main, the on_message handler.                                   *)
(***************************************************************************)
\* the locals of main while it walks response["messages"]
NoLocalsOfMain ==
    [tool_calls_made |-> <<>>, step_content |-> <<>>, steps |-> <<>>,
     final_response |-> <<>>, raised |-> FALSE, exception |-> None]

\* a variant of the branch that records a tool name once only
ClassifyToolCalls_Distinct(m, acc) ==
    LET tool_name == Get(m.tool_calls[1], "name", "unknown")
        tool_args == Get(m.tool_calls[1], "args", EmptyBag)
    IN  [acc EXCEPT
           !.tool_calls_made = IF InList(tool_name, @) THEN @ ELSE Append(@, tool_name),
           !.steps = Append(@, [name |-> <<"Chiamata", tool_name>>, input |-> tool_args]),
           !.step_content = @ \o <<[kind |-> "Tool", tool |-> tool_name],
                                   [kind |-> "json", args |-> tool_args]>>]

\* the branch for an AIMessage that carries tool calls
ClassifyToolCalls(m, acc) ==
    LET n == Len(m.tool_calls)
        tool_name(k) == Get(m.tool_calls[k], "name", "unknown")
        tool_args(k) == Get(m.tool_calls[k], "args", EmptyBag)
    IN  [acc EXCEPT
           !.tool_calls_made = @ \o [k \in 1..n |-> tool_name(k)],
           !.steps = @ \o [k \in 1..n |->
                             [name |-> <<"Chiamata", tool_name(k)>>,
                              input |-> tool_args(k)]],
           !.step_content = @ \o [j \in 1..(2 * n) |->
                                    IF j % 2 = 1
                                    THEN [kind |-> "Tool", tool |-> tool_name((j + 1) \div 2)]
                                    ELSE [kind |-> "json", args |-> tool_args(j \div 2)]]]

\* the branch for a ToolMessage; slicing a content that is no str and adding
\* a str to it raises TypeError
ClassifyToolMessage(m, acc) ==
    LET tool_name == m.name
        tool_content == m.content.text
    IN  IF ~m.content.is_str
        THEN [acc EXCEPT !.raised = TRUE,
                         !.exception = [type |-> "TypeError", where |-> "classify"]]
        ELSE [acc EXCEPT
                !.steps = Append(@,
                     [name |-> <<"Risposta", tool_name>>,
                      output |-> Take(tool_content, StepPreviewLimit)
                                 \o (IF Len(tool_content) > StepPreviewLimit
                                     THEN Ellipsis ELSE <<>>)]),
                !.step_content = @ \o <<[kind |-> "Risposta da", tool |-> tool_name],
                                        [kind |-> "code", text |-> tool_content],
                                        [kind |-> "---"]>>]

\* a variant of the chain that takes the text of any AIMessage as the answer
ClassifyMessage_AnyContent(m, acc) ==
    LET with_text == IF m.type = "AIMessage" /\ Len(m.content) > 0
                     THEN [acc EXCEPT !.final_response = m.content] ELSE acc
    IN  IF m.type = "AIMessage" /\ Len(m.tool_calls) > 0
        THEN ClassifyToolCalls(m, with_text)
        ELSE IF m.type = "ToolMessage" THEN ClassifyToolMessage(m, acc)
        ELSE with_text

\* one pass of the loop body: the if/elif chain over the message's type
ClassifyMessage(m, acc) ==
    IF m.type = "AIMessage" /\ Len(m.tool_calls) > 0 THEN ClassifyToolCalls(m, acc)
    ELSE IF m.type = "ToolMessage" THEN ClassifyToolMessage(m, acc)
    ELSE IF m.type = "AIMessage" /\ Len(m.content) > 0
    THEN [acc EXCEPT !.final_response = m.content]
    ELSE acc

\* for i, response_msg in enumerate(response["messages"]), from message i on
RECURSIVE Classify(_, _, _)
Classify(messages, i, acc) ==
    IF i > Len(messages) \/ acc.raised THEN acc
    ELSE Classify(messages, i + 1, ClassifyMessage(messages[i], acc))

\* the (empty) message main sends before it invokes the agent
ThinkingMessage == Message([kind |-> ""], "Assistant")

GenericFailure ==
    Message([kind |-> "Si è verificato un errore durante l'elaborazione."], "Assistant")

\* the record main appends to the history
TurnRecord(timestamp, user_message, final_response, tool_calls_made) ==
    [timestamp |-> timestamp, user |-> user_message,
     assistant |-> final_response, tools_used |-> tool_calls_made]

\* a variant that puts the record in place of the history
SaveTurn_Replace(session, record) ==
    SessionSet(session, "conversation_history", <<record>>)

\* conversation_history = get(..., []); append; set
SaveTurn(session, record) ==
    SessionSet(session, "conversation_history",
               Append(Get(session, "conversation_history", <<>>), record))

\* a variant of the except branch that keeps a record of the aborted turn
Aborted_SavesPartial(session, client, message, clock, steps, streamed, e) ==
    Handled(SaveTurn(session, TurnRecord(clock, message, streamed, <<>>)), client,
            [messages |-> <<ThinkingMessage, GenericFailure>>,
             step |-> [kind |-> "Errore", trace |-> format_exc(e)],
             steps |-> steps, streamed |-> streamed, elements |-> <<>>],
            <<[level |-> "error", kind |-> "Errore durante elaborazione messaggio",
               exception |-> e]>>,
            "fault", FALSE)

\* a variant of the except branch that drops the agent
Aborted_DropsAgent(session, client, message, clock, steps, streamed, e) ==
    Handled([k \in DOMAIN session \ {"agent"} |-> session[k]], client,
            [messages |-> <<ThinkingMessage, GenericFailure>>,
             step |-> [kind |-> "Errore", trace |-> format_exc(e)],
             steps |-> steps, streamed |-> streamed, elements |-> <<>>],
            <<[level |-> "error", kind |-> "Errore durante elaborazione messaggio",
               exception |-> e]>>,
            "fault", FALSE)

\* the except branch of main: the exception is logged, the trace becomes the
\* output of the reasoning step, and one message is sent
Aborted(session, client, message, clock, steps, streamed, e) ==
    Handled(session, client,
            [messages |-> <<ThinkingMessage, GenericFailure>>,
             step |-> [kind |-> "Errore", trace |-> format_exc(e)],
             steps |-> steps, streamed |-> streamed, elements |-> <<>>],
            <<[level |-> "error", kind |-> "Errore durante elaborazione messaggio",
               exception |-> e]>>,
            "fault", FALSE)

\* what a nested step opened by the loop renders: a tool call or a tool result
StepEvent(s) ==
    IF s.name[1] = "Chiamata" THEN [kind |-> "TOOL_CALL", tool |-> s.name[2]]
    ELSE [kind |-> "TOOL_RESULT", tool |-> s.name[2]]

\* a variant of the order that saves the record before the answer goes out
CompletedEvents_PersistFirst(locals) ==
    [k \in 1..Len(locals.steps) |-> StepEvent(locals.steps[k])]
    \o <<[kind |-> "step.output"], [kind |-> "persist"],
          [kind |-> "FINAL_ANSWER", text |-> locals.final_response],
          [kind |-> "send"], [kind |-> "log"]>>

\* what a turn that completes does, in the order of main's statements: the
\* nested steps opened by the loop, step.output, the streaming of the final
\* answer, final_msg.send(), the history append, logger.info
CompletedEvents(locals) ==
    [k \in 1..Len(locals.steps) |-> StepEvent(locals.steps[k])]
    \o <<[kind |-> "step.output"],
          [kind |-> "FINAL_ANSWER", text |-> locals.final_response],
          [kind |-> "send"], [kind |-> "persist"], [kind |-> "log"]>>

\* on_message.  env.response is response["messages"] of agent.ainvoke;
\* env.fault names the call that raises inside the try block, if any, and
\* env.streamed is how many characters went out before stream_token raised
main(session, client, message, env, clock) ==
    LET agent == Get(session, "agent", None)
        locals == Classify(env.response, 1, NoLocalsOfMain)
    IN  IF agent = None
        THEN Handled(session, client,
                     Shown(<<Message([kind |-> "Agent non inizializzato. Ricarica la pagina."],
                                     "System")>>),
                     <<>>, "no_agent", FALSE)
        ELSE IF env.fault = "ainvoke"
        THEN Aborted(session, client, message, clock, <<>>, <<>>, Fault("ainvoke"))
        ELSE IF locals.raised
        THEN Aborted(session, client, message, clock, locals.steps, <<>>, locals.exception)
        ELSE IF env.fault = "stream_token"
        THEN Aborted(session, client, message, clock, locals.steps,
                     Take(locals.final_response, env.streamed), Fault("stream_token"))
        ELSE IF env.fault = "send"
        THEN Aborted(session, client, message, clock, locals.steps,
                     locals.final_response, Fault("send"))
        ELSE Handled(SaveTurn(session,
                              TurnRecord(clock, message, locals.final_response,
                                         locals.tool_calls_made)),
                     client,
                     [messages |-> <<ThinkingMessage,
                                     Message([kind |-> "text",
                                              text |-> locals.final_response],
                                             "Assistant")>>,
                      step |-> [kind |-> "chain", parts |-> locals.step_content],
                      steps |-> locals.steps,
                      streamed |-> locals.final_response,
                      elements |-> <<>>,
                      events |-> CompletedEvents(locals)],
                     <<[level |-> "info", kind |-> "Risposta completata",
                        tools |-> locals.tool_calls_made]>>,
                     "completed", FALSE)

(***************************************************************************)
(* app.py: the inputs of a session.                                        *)
(***************************************************************************)
\* a text of n characters, no two neighbours equal
Chars(n) == [i \in 1..n |-> ToString(i % 10)]

HumanMessage(content) ==
    [type |-> "HumanMessage", content |-> content, tool_calls |-> <<>>]
AIMessage(content, tool_calls) ==
    [type |-> "AIMessage", content |-> content, tool_calls |-> tool_calls]
ToolMessage(name, content) ==
    [type |-> "ToolMessage", name |-> name, tool_calls |-> <<>>,
     content |-> [is_str |-> TRUE, text |-> content]]
\* a ToolMessage whose content is a list of content blocks
ToolMessageBlocks(name) ==
    [type |-> "ToolMessage", name |-> name, tool_calls |-> <<>>,
     content |-> [is_str |-> FALSE, text |-> <<>>]]
ToolCall(name, args) == ("name" :> name) @@ ("args" :> args)

FollowUp == "E domani?"
UserMessages == {"Che tempo fa a Roma?", FollowUp}

FinalAnswer == <<"S", "o", "l", "e">>

\* text an agent message carries before the final answer
Preamble == <<"O", "k">>

\* length of a tool result well below the preview limits
ShortLen == 12

\* response["messages"] of agent.ainvoke: the user message, then tool calls
\* with their results, then the final answer
Transcripts(user_message) ==
    LET h == HumanMessage(user_message)
        q == ("q" :> "Roma")
        final == AIMessage(FinalAnswer, <<>>)
    IN  { <<h, final>>,
          <<h, AIMessage(<<>>, <<ToolCall("get_current_weather", q)>>),
               ToolMessage("get_current_weather", Chars(ShortLen)), final>>,
          <<h, AIMessage(<<>>, <<ToolCall("get_forecast", q),
                                 ToolCall("suggest_activities", ("location" :> "Roma"))>>),
               ToolMessage("get_forecast", Chars(PreviewLimit + 1)),
               ToolMessage("suggest_activities", Chars(StepPreviewLimit + 1)), final>>,
          <<h, AIMessage(<<>>, <<ToolCall("get_current_weather", q)>>),
               ToolMessage("get_current_weather", Chars(PreviewLimit)),
               AIMessage(<<>>, <<ToolCall("get_current_weather", ("q" :> "Milano"))>>),
               ToolMessage("get_current_weather", Chars(StepPreviewLimit)), final>>,
          <<h, AIMessage(<<>>, <<ToolCall("search_location", q)>>),
               ToolMessageBlocks("search_location"), final>>,
          <<h, AIMessage(<<>>, <<>>)>>,
          <<h, AIMessage(Preamble, <<ToolCall("get_astronomy", q)>>),
               ToolMessage("get_astronomy", Chars(ShortLen)), final>>,
          <<h, AIMessage(Preamble, <<ToolCall("get_astronomy", q)>>),
               ToolMessage("get_astronomy", Chars(ShortLen))>>,
          <<h, AIMessage(Preamble, <<>>), final>> }

\* what the agent and the chat connection do during one run of main; the
\* follow-up question is answered with the transcripts of at most 3 messages
MainEnvs(user_message) ==
    { [fault |-> "none", response |-> t, streamed |-> 0] :
        t \in { u \in Transcripts(user_message) :
                  user_message # FollowUp \/ Len(u) <= 3 } }
    \cup { [fault |-> "ainvoke", response |-> <<>>, streamed |-> 0] }
    \cup { [fault |-> f, response |-> t, streamed |-> IF f = "send" THEN 0 ELSE 2] :
             f \in {"stream_token", "send"},
             t \in { u \in Transcripts(user_message) :
                       user_message # FollowUp /\ Len(u) = 6 } }

\* the values the settings panel can send, and one provider it does not list
SettingsValues ==
    { ("provider" :> "OpenAI") @@ ("model" :> "gpt-4o"),
      ("provider" :> "Anthropic") @@ ("model" :> "claude-3-haiku-20240307"),
      ("provider" :> "Groq") @@ ("model" :> "llama-3.3-70b-versatile"),
      ("provider" :> "OpenAI") @@ ("model" :> "openai/gpt-oss-120b"),
      ("provider" :> "Mistral") @@ ("model" :> "mistral-large") }

\* the initial values of the two Select widgets
InitialSettings == ("provider" :> "Groq") @@ ("model" :> "openai/gpt-oss-120b")

(***************************************************************************)
(* app.py: one action per handler.                                         *)
(***************************************************************************)
\* a chat session has connected; on_chat_start has not run yet
InitApp ==
    /\ user_session = EmptyBag
    /\ mcp_client = NoClient
    /\ now = 0
    /\ a_pc = "new"
    /\ a_call = NoCall
    /\ a_shown = NothingShown
    /\ a_logged = <<>>
    /\ WIdle
    /\ TIdle

\* the handler named `handler` ran on `input` under `env` and handed back r;
\* a_call also keeps which handler ran before it and how that one ended
Ran(handler, input, env, r) ==
    /\ user_session' = r.session
    /\ mcp_client' = r.client
    /\ a_shown' = r.shown
    /\ a_logged' = r.logged
    /\ a_call' = [handler |-> handler, input |-> input, env |-> env,
                  outcome |-> r.outcome, raised |-> r.raised,
                  previous |-> [handler |-> a_call.handler,
                                outcome |-> a_call.outcome]]
    /\ now' = now + 1
    /\ UNCHANGED <<wvars, tvars>>

Start ==
    /\ a_pc = "new"
    /\ a_pc' = "active"
    /\ \E f \in {"none", "initialize_mcp_client", "get_llm"} :
          Ran("start", InitialSettings, [fault |-> f],
              start(InitialSettings, [fault |-> f]))

SettingsUpdate ==
    /\ a_pc = "active"
    /\ now <= MaxClock
    /\ a_pc' = a_pc
    /\ \E settings \in SettingsValues, f \in {"none", "get_llm", "get_tools"} :
          /\ f # "none" => settings["provider"] = "Anthropic"
          /\ Ran("settings_update", settings, [fault |-> f],
                 settings_update(user_session, mcp_client, settings, [fault |-> f]))

Main ==
    /\ a_pc = "active"
    /\ now <= MaxClock
    /\ a_pc' = a_pc
    /\ \E message \in UserMessages :
          \E env \in MainEnvs(message) :
              Ran("main", message, env,
                  main(user_session, mcp_client, message, env, now))

End ==
    /\ a_pc = "active"
    /\ a_pc' = "ended"
    /\ Ran("end", None, [fault |-> "none"], end(user_session, mcp_client))

AppNext == Start \/ SettingsUpdate \/ Main \/ End

SpecApp == InitApp /\ [][AppNext]_vars

(***************************************************************************)
(* app.py: properties of the session handlers.                             *)
(***************************************************************************)
\* main has run to the end of its try block
TurnCompleted == a_call.handler = "main" /\ a_call.outcome = "completed"

\* main has run into its except branch
TurnFaulted == a_call.handler = "main" /\ a_call.outcome = "fault"

IsToolMessage(m) == m.type = "ToolMessage"
IsResponseStep(s) == s.name[1] = "Risposta"

\* the tool results of the transcript main was given, and the steps main
\* opened to show them, both in transcript order
ToolResultsOf(response) == SelectSeq(response, IsToolMessage)
ResponseStepsOf(steps) == SelectSeq(steps, IsResponseStep)

\* the artifacts among elements that are named after tool_name
ArtifactsFor(elements, tool_name) ==
    { i \in 1..Len(elements) : elements[i].name = <<"tool_response_", tool_name>> }

\* what the rendering contract asks of one rendered tool result: inline is
\* the text shown in place, elements the artifacts attached
RenderedAsSpecified(tool_name, payload, inline, elements) ==
    IF Len(payload) > PreviewLimit
    THEN /\ inline = SubSeq(payload, 1, PreviewLimit) \o Ellipsis
         /\ Cardinality(ArtifactsFor(elements, tool_name)) = 1
         /\ \A i \in ArtifactsFor(elements, tool_name) : elements[i].content = payload
    ELSE /\ inline = payload
         /\ ArtifactsFor(elements, tool_name) = {}

\* C12 (as claimed): rendering a tool result whose payload is longer than 200
\* characters produces an inline preview equal to exactly the first 200
\* characters followed by an ellipsis and attaches one artifact, named after
\* the tool, whose content is the untruncated payload; a payload of at most
\* 200 characters is rendered inline in full with no artifact.  Stated of
\* every tool result that main renders in a turn that completes.
C12_ToolResultPreview ==
    TurnCompleted =>
        LET results == ToolResultsOf(a_call.env.response)
            shown == ResponseStepsOf(a_shown.steps)
        IN  /\ Len(shown) = Len(results)
            /\ \A k \in 1..Len(results) :
                   RenderedAsSpecified(results[k].name, results[k].content.text,
                                       shown[k].output, a_shown.elements)

\* stream_tool_response taken by itself, applied to every tool result of the
\* transcript and an empty message, renders as the contract asks
StreamToolResponseAsSpecified ==
    a_call.handler = "main" =>
        \A k \in 1..Len(a_call.env.response) :
            LET m == a_call.env.response[k] IN
            (IsToolMessage(m) /\ m.content.is_str) =>
                LET msg == stream_tool_response(m.name, m.content.text, EmptyMessage)
                IN  RenderedAsSpecified(m.name, m.content.text,
                                        msg.content[2].text, msg.elements)

\* the session's conversation history ([] while the key is not set)
History(session) == Get(session, "conversation_history", <<>>)

\* the names of all tool calls of a transcript, in call order
RECURSIVE ToolCallNames(_)
ToolCallNames(response) ==
    IF response = <<>> THEN <<>>
    ELSE LET calls == Head(response).tool_calls
         IN  [k \in 1..Len(calls) |-> calls[k]["name"]] \o ToolCallNames(Tail(response))

\* C13: for every transcript returned by the agent for a turn that completes,
\* the Turn record persisted last has as tools_used the tool names of all
\* tool calls of the transcript, in call order and with repetitions kept.
C13_ToolsUsedInCallOrder ==
    TurnCompleted =>
        LET history == History(user_session)
        IN  /\ Len(history) > 0
            /\ history[Len(history)].tools_used = ToolCallNames(a_call.env.response)
            /\ history[Len(history)].user = a_call.input

\* a turn with two calls of the same tool, one after the other's result,
\* has persisted the name twice
C13_Witness ==
    /\ TurnCompleted
    /\ Len(History(user_session)) > 0
    /\ History(user_session)[Len(History(user_session))].tools_used
           = <<"get_current_weather", "get_current_weather">>

\* something raises while main handles a turn under env: the agent, the walk
\* over the transcript (a tool result that is no text), or the streaming of
\* the final answer
FaultRaisedUnder(env) ==
    \/ env.fault \in {"ainvoke", "stream_token", "send"}
    \/ \E k \in 1..Len(env.response) :
           IsToolMessage(env.response[k]) /\ ~env.response[k].content.is_str

\* the messages of shown that are the generic failure message
FailureMessages(shown) ==
    { i \in 1..Len(shown.messages) : shown.messages[i] = GenericFailure }

\* C14: if a fault is raised while a turn is processed (driving the agent,
\* classifying the transcript or streaming the final answer), the fault is
\* caught (main does not raise), the user is sent a single generic failure
\* message, and the session, its conversation history included, is left
\* exactly as it was before the turn: no partial Turn record is persisted.
C14_FaultAbortsTurn ==
    [][(/\ a_call'.handler = "main"
        /\ Get(user_session, "agent", None) # None
        /\ FaultRaisedUnder(a_call'.env)) =>
           /\ a_call'.outcome = "fault"
           /\ ~a_call'.raised
           /\ Cardinality(FailureMessages(a_shown')) = 1
           /\ \A i \in 1..Len(a_shown'.messages) :
                  i \notin FailureMessages(a_shown') =>
                      a_shown'.messages[i].content = [kind |-> ""]
           /\ History(user_session') = History(user_session)
           /\ user_session' = user_session]_vars

\* a turn faulted while its final answer was being streamed, in a session
\* whose history already held a record
C14_Witness ==
    /\ TurnFaulted
    /\ a_call.env.fault = "stream_token"
    /\ Len(a_shown.streamed) = 2
    /\ Len(History(user_session)) = 1

\* a text shown or logged carries the diagnostic trace
HasTrace(content) == "trace" \in DOMAIN content

\* the last handler caught a fault
FaultCaught ==
    \/ TurnFaulted
    \/ a_call.handler = "start" /\ a_call.outcome = "failed"

\* C15 (as claimed): when a fault is caught, the detailed diagnostic trace is
\* written only to the operator-facing log: no output visible to the end user
\* (the chat messages and the displayed reasoning step) contains the trace.
C15_TraceOnlyInLog ==
    FaultCaught =>
        /\ \A i \in 1..Len(a_shown.messages) : ~HasTrace(a_shown.messages[i].content)
        /\ ~HasTrace(a_shown.step)
        /\ \E i \in 1..Len(a_logged) : HasTrace(a_logged[i])

\* the same, of main alone: the reasoning step of a faulted turn shows no trace
TurnFaultShowsNoTrace == TurnFaulted => ~HasTrace(a_shown.step)

\* s is an initial segment of t
IsPrefix(s, t) == Len(s) <= Len(t) /\ SubSeq(t, 1, Len(s)) = s

\* C16: a settings update with a known provider (one that runs to its end)
\* rebuilds the agent from a new LLM binding for (provider, model) and a
\* freshly fetched tool list, and replaces the session's agent, provider and
\* model, while the conversation history is unchanged; a settings update that
\* does not run to its end leaves the whole session as it was; and a turn
\* that follows keeps every record the history held.
C16_SettingsUpdateKeepsHistory ==
    [][/\ a_call'.handler = "settings_update" =>
           LET provider == a_call'.input["provider"]
               model == a_call'.input["model"]
           IN  /\ History(user_session') = History(user_session)
               /\ (provider \in DOMAIN PROVIDER_MODELS /\ ~a_call'.raised) =>
                      /\ a_call'.outcome = "updated"
                      /\ mcp_client'.fetches = mcp_client.fetches + 1
                      /\ user_session'["agent"].llm = get_llm(provider, model)
                      /\ user_session'["agent"].llm # None
                      /\ user_session'["agent"].tools.fetch = mcp_client'.fetches
                      /\ user_session'["provider"] = provider
                      /\ user_session'["model"] = model
                      /\ user_session'["mcp_client"] = user_session["mcp_client"]
               /\ a_call'.outcome # "updated" => user_session' = user_session
       /\ a_call'.handler = "main" =>
              IsPrefix(History(user_session), History(user_session'))]_vars

\* after a completed turn the settings were switched to OpenAI: the agent is
\* bound to ChatOpenAI and to the second tool list fetched, and the history
\* still holds the turn's record
C16_Witness ==
    /\ a_call.handler = "settings_update"
    /\ a_call.outcome = "updated"
    /\ user_session["provider"] = "OpenAI"
    /\ user_session["agent"].llm.class = "ChatOpenAI"
    /\ user_session["agent"].tools.fetch = 2
    /\ Len(History(user_session)) = 1

\* C18 (as claimed): when a session ends, the tool-server channel held by
\* the session is released: after the chat-end handler has run, the
\* session's MCP client is closed.
C18_EndReleasesClient ==
    (a_pc = "ended" /\ mcp_client.created /\ Get(user_session, "mcp_client", None) # None)
        => mcp_client.closed

\* C19: the conversation history is an append-only log: whatever handler
\* runs (a user message, a settings update, a fault, the chat end), the
\* records the history held are still there, unchanged and in the same
\* order; a turn that completes appends exactly one Turn record at the end,
\* and no other handler run changes the history.
C19_HistoryAppendOnly ==
    [][LET old == History(user_session)
           new == History(user_session')
       IN  /\ IsPrefix(old, new)
           /\ IF a_call'.handler = "main" /\ a_call'.outcome = "completed"
              THEN /\ Len(new) = Len(old) + 1
                   /\ new[Len(new)].user = a_call'.input
                   /\ new[Len(new)].timestamp = now
              ELSE new = old]_vars

\* three turns completed one after the other: the history holds their three
\* records in the order of their timestamps
C19_Witness ==
    /\ TurnCompleted
    /\ Len(History(user_session)) = MaxClock
    /\ \A i \in 1..(MaxClock - 1) :
           History(user_session)[i].timestamp < History(user_session)[i + 1].timestamp

\* the session's agent (None while the key is not set)
Agent(session) == Get(session, "agent", None)

\* C20: an orchestration fault is terminal for its turn only: the turn that
\* ends in a fault leaves the session's agent as it was, and the user message
\* that follows is processed normally: it is not refused, it runs with that
\* same agent, and if nothing raises it completes and appends its Turn record.
C20_FaultTerminalForTurnOnly ==
    [][/\ (a_call'.handler = "main" /\ a_call'.outcome = "fault") =>
              Agent(user_session') = Agent(user_session)
       /\ (TurnFaulted /\ a_call'.handler = "main") =>
              /\ Agent(user_session) # None
              /\ a_call'.outcome \in {"completed", "fault"}
              /\ Agent(user_session') = Agent(user_session)
              /\ ~FaultRaisedUnder(a_call'.env) =>
                     /\ a_call'.outcome = "completed"
                     /\ Len(History(user_session')) = Len(History(user_session)) + 1
                     /\ History(user_session')[Len(History(user_session'))].user
                            = a_call'.input]_vars

\* a turn completed right after a turn that had ended in a fault
C20_Witness ==
    /\ TurnCompleted
    /\ a_call.previous = [handler |-> "main", outcome |-> "fault"]
    /\ Len(History(user_session)) = 1
    /\ Agent(user_session) # None

\* the tool calls and tool results of a transcript as the entries to render,
\* in transcript order
RECURSIVE TranscriptEntries(_)
TranscriptEntries(response) ==
    IF response = <<>> THEN <<>>
    ELSE LET m == Head(response)
             here == IF IsToolMessage(m)
                     THEN <<[kind |-> "TOOL_RESULT", tool |-> m.name]>>
                     ELSE [k \in 1..Len(m.tool_calls) |->
                             [kind |-> "TOOL_CALL", tool |-> m.tool_calls[k]["name"]]]
         IN  here \o TranscriptEntries(Tail(response))

\* the positions of the events of one kind
EventsOfKind(events, kind) == { i \in 1..Len(events) : events[i].kind = kind }

IsToolEvent(e) == e.kind \in {"TOOL_CALL", "TOOL_RESULT"}

SecondaryListed ==
    { i \in 1..Len(t_result.content.text.items) :
        InTable(t_result.content.text.items[i], t_locals.secondary_category) }

\* C22: in suggest_activities, the activities of the secondary category
\* (outdoor when indoor is preferred, indoor otherwise) that pass the
\* preference filter are added to the candidates if and only if fewer than 3
\* candidates were collected from the primary category and the mixed pool;
\* so a result that lists a secondary-category activity implies that fewer
\* than 3 primary-or-mixed candidates existed.
C22_BackfillOnlyWhenFew ==
    ActivitiesSuggested =>
        LET collected == t_locals.after_mixed
            secondary == ACTIVITIES_DB[t_locals.secondary_category]
            wanted(a) == PreferenceOk(a, RequestPreferences)
        IN  /\ t_locals.secondary_category =
                   (IF t_locals.prefer_indoor THEN "outdoor" ELSE "indoor")
            /\ Len(collected) < 3 =>
                   t_locals.after_backfill = collected \o SelectSeq(secondary, wanted)
            /\ Len(collected) >= 3 => t_locals.after_backfill = collected
            /\ SecondaryListed # {} => Len(collected) < 3
            /\ \A i \in 1..Len(collected) :
                   ~InTable(collected[i], t_locals.secondary_category)

\* with preference "sport" on a rainy day fewer than 3 candidates come from
\* the indoor and mixed tables, and the result lists an outdoor activity
C22_Witness ==
    /\ ActivitiesSuggested
    /\ t_locals.prefer_indoor
    /\ Len(t_locals.after_mixed) < 3
    /\ Len(t_locals.after_backfill) > Len(t_locals.after_mixed)
    /\ SecondaryListed # {}

(***************************************************************************)
(* travel_server.py: the time grid of create_itinerary.                    *)
(***************************************************************************)
\* the position of a time on the grid, counted from 0
SlotOf(time) == (CHOOSE j \in 1..Len(times) : times[j] = time) - 1

\* the entries of a timeline that are of the given kind, in order
EntriesOfKind(timeline, kind) ==
    SelectSeq(timeline, LAMBDA e : e.type = kind)

\* the request's arguments with start_time set to s
WithStartTime(arguments, s) == ("start_time" :> s) @@ arguments

\* C23: for every create_itinerary input, the i-th included activity
\* (i = 0..2) is placed at grid slot 2i and the i-th restaurant at grid slot
\* 2i+1 of the fixed grid 09:00-19:00, a restaurant is included only when
\* the activity with the same index is included, the entry times are
\* strictly increasing, and the times do not depend on start_time.
C23_FixedGrid ==
    ItineraryCreated =>
        LET timeline == t_result.content.text.timeline
            a == Take(t_request.arguments["activities"], 3)
            r == Get(t_request.arguments, "restaurants", <<>>)
            acts == EntriesOfKind(timeline, "activity")
            rests == EntriesOfKind(timeline, "restaurant")
        IN  /\ Len(acts) = Len(a)
            /\ \A i \in 0..(Len(a) - 1) :
                   acts[i + 1].item = a[i + 1] /\ SlotOf(acts[i + 1].time) = 2 * i
            /\ Len(rests) = (IF Len(r) < Len(a) THEN Len(r) ELSE Len(a))
            /\ \A i \in 0..(Len(rests) - 1) :
                   rests[i + 1].item = r[i + 1] /\ SlotOf(rests[i + 1].time) = 2 * i + 1
            /\ \A k \in 1..Len(timeline) : InList(timeline[k].time, times)
            /\ \A k \in 1..(Len(timeline) - 1) :
                   SlotOf(timeline[k].time) < SlotOf(timeline[k + 1].time)
            /\ \A s \in {"09:00", "14:30", "21:00"} :
                   CreateItineraryBody(WithStartTime(t_request.arguments, s))
                       .text.timeline = timeline

\* an itinerary that starts at 14:30, for 3 activities and 1 restaurant: the
\* first activity is at 09:00, the slots 15:00 and 19:00 stay free
C23_Witness ==
    /\ ItineraryCreated
    /\ Get(t_request.arguments, "start_time", "09:00") = "14:30"
    /\ Len(t_request.arguments["activities"]) = 3
    /\ Len(Get(t_request.arguments, "restaurants", <<>>)) = 1
    /\ TimesOf(t_result.content.text.timeline) = <<"09:00", "11:00", "13:00", "17:00">>

\* an agent message with non-empty content and no tool calls
IsAnswer(m) == m.type = "AIMessage" /\ Len(m.content) > 0 /\ Len(m.tool_calls) = 0

\* the content of the last such message of a transcript, "" when there is none
LastAnswer(response) ==
    LET answers == { i \in 1..Len(response) : IsAnswer(response[i]) }
    IN  IF answers = {} THEN <<>>
        ELSE response[CHOOSE i \in answers : \A j \in answers : j <= i].content

\* C24: for every transcript, the final answer that is streamed and
\* persisted is the content of the last agent message that has non-empty
\* content and no tool calls; text carried by an agent message that also has
\* tool calls is never used as the final answer; and when no such message
\* exists the turn still completes and persists a Turn record with an empty
\* final answer.
C24_FinalAnswerSelection ==
    (/\ a_call.handler = "main"
     /\ a_call.outcome # "no_agent"
     /\ ~FaultRaisedUnder(a_call.env)) =>
        LET history == History(user_session)
            answer == LastAnswer(a_call.env.response)
        IN  /\ a_call.outcome = "completed"
            /\ a_shown.streamed = answer
            /\ a_shown.messages[Len(a_shown.messages)].content
                   = [kind |-> "text", text |-> answer]
            /\ Len(history) > 0
            /\ history[Len(history)].assistant = answer
            /\ history[Len(history)].timestamp = now - 1

\* a turn whose only agent text came along with a tool call has completed
\* with an empty final answer, and its record is in the history
C24_Witness ==
    /\ TurnCompleted
    /\ \E k \in 1..Len(a_call.env.response) :
           /\ a_call.env.response[k].type = "AIMessage"
           /\ a_call.env.response[k].content = Preamble
           /\ Len(a_call.env.response[k].tool_calls) > 0
    /\ a_shown.streamed = <<>>
    /\ History(user_session)[Len(History(user_session))].assistant = <<>>

=============================================================================
